---- MODULE Spec2Model ----
(***************************************************************************)
(* A model of the block recognizer of vision_processor.py: the token scan  *)
(* of parse_commands, the action-sequence parser parse_actions_from, the   *)
(* grid sub-parser parse_grid_from and the pin normalizer.                 *)
(*                                                                         *)
(* Strings are sequences of characters; a character is a one-character     *)
(* TLA+ string, and a character outside ASCII is written by its code       *)
(* point ("U+0420" is the Cyrillic capital Er), and so is the backquote,    *)
(* "U+0060", which the parser of TLA+ rejects in a string.  Token          *)
(* positions are the 0-based positions of the DataFrame, so the token at   *)
(* position p of df is df[p + 1].                                          *)
(***************************************************************************)
EXTENDS Integers, Sequences, FiniteSets, TLC

VARIABLES
    blocks_map,        \* the mapping loaded at import (icons, sounds, pins, ...)
    df,                \* the token sequence of the call, one token per OCR line
    index,             \* position of the scan loop of parse_commands
    consumed_indices,  \* the consumed set of parse_commands
    parsed_commands,   \* the command model under construction
    pc,                \* "scan" while the loop runs, "done" after return
    emitted,           \* history: the nodes the scan has emitted, with their index
    spans,             \* history: token spans of the stored handlers and conditionals
    arg,               \* input of the pure function under check
    ret,               \* its result
    code_file,         \* the content of static/code_file.js of the web app
    session,           \* per browser session: the upload its cookie names
    request,           \* per session: the /process_image_path request in flight
    reader,            \* per session: the /get_js_content request in flight
    response           \* per session: what the last /get_js_content returned

vars == <<blocks_map, df, index, consumed_indices, parsed_commands, pc,
          emitted, spans, arg, ret, code_file, session, request, reader, response>>

\* the browser sessions
Sessions == {"s1", "s2"}

\* what static/code_file.js holds: nothing (the file does not exist), the
\* placeholder, or the code generated from upload n of session s
Absent == [kind |-> "absent", session |-> "-", n |-> 0]
Placeholder == [kind |-> "placeholder", session |-> "-", n |-> 0]
Code(s, n) == [kind |-> "code", session |-> s, n |-> n]

\* a response of /get_js_content: its status and, for 200, its body
Response(status, body) == [status |-> status, body |-> body]
NoResponse == Response(0, Absent)

\* the web app as it starts: no generated file, no session with an upload,
\* no request in flight
WebInit ==
    /\ code_file = Absent
    /\ session = [s \in Sessions |-> 0]
    /\ request = [s \in Sessions |-> [pc |-> "idle", n |-> 0]]
    /\ reader = [s \in Sessions |-> "idle"]
    /\ response = [s \in Sessions |-> NoResponse]

\* the parser does not touch the state of the web app
WebFrame == UNCHANGED <<code_file, session, request, reader, response>>

(***************************************************************************)
(* String literals of the source.                                          *)
(***************************************************************************)
\* Str[text] is the Python string text as a sequence of its characters
Str ==
    ("ON" :> <<"O", "N">>)
      @@ ("IF" :> <<"I", "F">>)
      @@ ("ELSE" :> <<"E", "L", "S", "E">>)
      @@ ("THEN" :> <<"T", "H", "E", "N">>)
      @@ ("SHOW" :> <<"S", "H", "O", "W">>)
      @@ ("SHAKE" :> <<"S", "H", "A", "K", "E">>)
      @@ ("HEAR" :> <<"H", "E", "A", "R">>)
      @@ ("LOUD" :> <<"L", "O", "U", "D">>)
      @@ ("QUIET" :> <<"Q", "U", "I", "E", "T">>)
      @@ ("SOUND" :> <<"S", "O", "U", "N", "D">>)
      @@ ("RADIO" :> <<"R", "A", "D", "I", "O">>)
      @@ ("RECEIVES" :> <<"R", "E", "C", "E", "I", "V", "E", "S">>)
      @@ ("RADIO RECEIVES" :> <<"R", "A", "D", "I", "O", " ", "R", "E", "C", "E", "I", "V", "E", "S">>)
      @@ ("HEAR LOUD SOUND" :> <<"H", "E", "A", "R", " ", "L", "O", "U", "D", " ", "S", "O", "U", "N", "D">>)
      @@ ("HEAR QUIET SOUND" :> <<"H", "E", "A", "R", " ", "Q", "U", "I", "E", "T", " ", "S", "O", "U", "N", "D">>)
      @@ ("PRESS" :> <<"P", "R", "E", "S", "S">>)
      @@ ("BUTTON" :> <<"B", "U", "T", "T", "O", "N">>)
      @@ ("PRESS BUTTON" :> <<"P", "R", "E", "S", "S", " ", "B", "U", "T", "T", "O", "N">>)
      @@ ("PRESS BUTTON A" :> <<"P", "R", "E", "S", "S", " ", "B", "U", "T", "T", "O", "N", " ", "A">>)
      @@ ("PRESS BUTTON B" :> <<"P", "R", "E", "S", "S", " ", "B", "U", "T", "T", "O", "N", " ", "B">>)
      @@ ("PRESS BUTTON AB" :> <<"P", "R", "E", "S", "S", " ", "B", "U", "T", "T", "O", "N", " ", "A", "B">>)
      @@ ("A" :> <<"A">>)
      @@ ("B" :> <<"B">>)
      @@ ("AB" :> <<"A", "B">>)
      @@ ("TILT" :> <<"T", "I", "L", "T">>)
      @@ ("UP" :> <<"U", "P">>)
      @@ ("DOWN" :> <<"D", "O", "W", "N">>)
      @@ ("LEFT" :> <<"L", "E", "F", "T">>)
      @@ ("RIGHT" :> <<"R", "I", "G", "H", "T">>)
      @@ ("TILT UP" :> <<"T", "I", "L", "T", " ", "U", "P">>)
      @@ ("TILT DOWN" :> <<"T", "I", "L", "T", " ", "D", "O", "W", "N">>)
      @@ ("TILT LEFT" :> <<"T", "I", "L", "T", " ", "L", "E", "F", "T">>)
      @@ ("TILT RIGHT" :> <<"T", "I", "L", "T", " ", "R", "I", "G", "H", "T">>)
      @@ ("LOGO" :> <<"L", "O", "G", "O">>)
      @@ ("TURN" :> <<"T", "U", "R", "N">>)
      @@ ("PLAY" :> <<"P", "L", "A", "Y">>)
      @@ ("GET" :> <<"G", "E", "T">>)
      @@ ("SEND" :> <<"S", "E", "N", "D">>)
      @@ ("TURN ON" :> <<"T", "U", "R", "N", " ", "O", "N">>)
      @@ ("TURN OFF" :> <<"T", "U", "R", "N", " ", "O", "F", "F">>)
      @@ ("SEND A" :> <<"S", "E", "N", "D", " ", "A">>)
      @@ ("MESSAGE" :> <<"M", "E", "S", "S", "A", "G", "E">>)
      @@ ("SEND A MESSAGE" :> <<"S", "E", "N", "D", " ", "A", " ", "M", "E", "S", "S", "A", "G", "E">>)
      @@ ("PLAY SOUND" :> <<"P", "L", "A", "Y", " ", "S", "O", "U", "N", "D">>)
      @@ ("CHANNEL" :> <<"C", "H", "A", "N", "N", "E", "L">>)
      @@ ("NOT" :> <<"N", "O", "T">>)
      @@ ("AND" :> <<"A", "N", "D">>)
      @@ ("OR" :> <<"O", "R">>)
      @@ ("EQUAL TO" :> <<"E", "Q", "U", "A", "L", " ", "T", "O">>)
      @@ ("SMALLER THAN" :> <<"S", "M", "A", "L", "L", "E", "R", " ", "T", "H", "A", "N">>)
      @@ ("GREATER THAN" :> <<"G", "R", "E", "A", "T", "E", "R", " ", "T", "H", "A", "N">>)
      @@ ("ON " :> <<"O", "N", " ">>)
      @@ ("P0" :> <<"P", "0">>)
      @@ ("P1" :> <<"P", "1">>)
      @@ ("P2" :> <<"P", "2">>)
      @@ ("PO" :> <<"P", "O">>)
      @@ ("HAPPY" :> <<"H", "A", "P", "P", "Y">>)
      @@ ("SAD" :> <<"S", "A", "D">>)
      @@ ("GIGGLE" :> <<"G", "I", "G", "G", "L", "E">>)
      @@ ("IconNames.Heart" :> <<"I", "c", "o", "n", "N", "a", "m", "e", "s", ".", "H", "e", "a", "r", "t">>)
      @@ ("IconNames.Happy" :> <<"I", "c", "o", "n", "N", "a", "m", "e", "s", ".", "H", "a", "p", "p", "y">>)
      @@ ("IconNames.Sad" :> <<"I", "c", "o", "n", "N", "a", "m", "e", "s", ".", "S", "a", "d">>)
      @@ ("soundExpression.happy" :> <<"s", "o", "u", "n", "d", "E", "x", "p", "r", "e", "s", "s", "i", "o", "n", ".", "h", "a", "p", "p", "y">>)
      @@ ("soundExpression.giggle" :> <<"s", "o", "u", "n", "d", "E", "x", "p", "r", "e", "s", "s", "i", "o", "n", ".", "g", "i", "g", "g", "l", "e">>)
      @@ ("basic.showIcon(" :> <<"b", "a", "s", "i", "c", ".", "s", "h", "o", "w", "I", "c", "o", "n", "(">>)
      @@ (")" :> <<")">>)
      @@ ("basic.showLeds(" :> <<"b", "a", "s", "i", "c", ".", "s", "h", "o", "w", "L", "e", "d", "s", "(">>)
      @@ (");" :> <<")", ";">>)
      @@ ("    " :> <<" ", " ", " ", " ">>)
      @@ ("pins.digitalWritePin(DigitalPin." :> <<"p", "i", "n", "s", ".", "d", "i", "g", "i", "t", "a", "l", "W", "r", "i", "t", "e", "P", "i", "n", "(", "D", "i", "g", "i", "t", "a", "l", "P", "i", "n", ".">>)
      @@ ("music.play(music.builtinPlayableSoundEffect(" :> <<"m", "u", "s", "i", "c", ".", "p", "l", "a", "y", "(", "m", "u", "s", "i", "c", ".", "b", "u", "i", "l", "t", "i", "n", "P", "l", "a", "y", "a", "b", "l", "e", "S", "o", "u", "n", "d", "E", "f", "f", "e", "c", "t", "(">>)
      @@ ("), music.PlaybackMode.UntilDone)" :> <<")", ",", " ", "m", "u", "s", "i", "c", ".", "P", "l", "a", "y", "b", "a", "c", "k", "M", "o", "d", "e", ".", "U", "n", "t", "i", "l", "D", "o", "n", "e", ")">>)
      @@ ("input.buttonIsPressed(Button." :> <<"i", "n", "p", "u", "t", ".", "b", "u", "t", "t", "o", "n", "I", "s", "P", "r", "e", "s", "s", "e", "d", "(", "B", "u", "t", "t", "o", "n", ".">>)
      @@ ("pins.digitalReadPin(DigitalPin." :> <<"p", "i", "n", "s", ".", "d", "i", "g", "i", "t", "a", "l", "R", "e", "a", "d", "P", "i", "n", "(", "D", "i", "g", "i", "t", "a", "l", "P", "i", "n", ".">>)
      @@ ("!(" :> <<"!", "(">>)
      @@ ("&&" :> <<"&", "&">>)
      @@ ("||" :> <<"|", "|">>)
      @@ ("==" :> <<"=", "=">>)
      @@ ("<" :> <<"<">>)
      @@ (">" :> <<">">>)
      @@ ("grid" :> <<"g", "r", "i", "d">>)
      @@ ("pin" :> <<"p", "i", "n">>)
      @@ ("value" :> <<"v", "a", "l", "u", "e">>)
      @@ ("pins.digitalWritePin(DigitalPin.{{pin}}, {{value}})" :> <<"p", "i", "n", "s", ".", "d", "i", "g", "i", "t", "a", "l", "W", "r", "i", "t", "e", "P", "i", "n", "(", "D", "i", "g", "i", "t", "a", "l", "P", "i", "n", ".", "{", "{", "p", "i", "n", "}", "}", ",", " ", "{", "{", "v", "a", "l", "u", "e", "}", "}", ")">>)
      @@ ("LED[PO]" :> <<"L", "E", "D", "[", "P", "O", "]">>)
      @@ ("[p1]" :> <<"[", "p", "1", "]">>)
      @@ ("[P9]" :> <<"[", "P", "9", "]">>)
      @@ ("7" :> <<"7">>)
      @@ ("1" :> <<"1">>)
      @@ ("0" :> <<"0">>)
      @@ ("#" :> <<"#">>)
      @@ ("??" :> <<"?", "?">>)
      @@ ("ON SHAKE" :> <<"O", "N", " ", "S", "H", "A", "K", "E">>)
      @@ ("#...#" :> <<"#", ".", ".", ".", "#">>)
      @@ ("[P0]" :> <<"[", "P", "0", "]">>)
      @@ ("radio.setGroup(" :> <<"r", "a", "d", "i", "o", ".", "s", "e", "t", "G", "r", "o", "u", "p", "(">>)
      @@ ("if (" :> <<"i", "f", " ", "(">>)
      @@ (") {" :> <<")", " ", "{">>)
      @@ ("} else {" :> <<"}", " ", "e", "l", "s", "e", " ", "{">>)
      @@ ("}" :> <<"}">>)
      @@ ("})" :> <<"}", ")">>)
      @@ ("input.onGesture(Gesture.Shake, function () {" :> <<"i", "n", "p", "u", "t", ".", "o", "n", "G", "e", "s", "t", "u", "r", "e", "(", "G", "e", "s", "t", "u", "r", "e", ".", "S", "h", "a", "k", "e", ",", " ", "f", "u", "n", "c", "t", "i", "o", "n", " ", "(", ")", " ", "{">>)
      @@ ("input.onButtonPressed(Button." :> <<"i", "n", "p", "u", "t", ".", "o", "n", "B", "u", "t", "t", "o", "n", "P", "r", "e", "s", "s", "e", "d", "(", "B", "u", "t", "t", "o", "n", ".">>)
      @@ (", function () {" :> <<",", " ", "f", "u", "n", "c", "t", "i", "o", "n", " ", "(", ")", " ", "{">>)
      @@ ("input.onSound(DetectedSound.Loud, function () {" :> <<"i", "n", "p", "u", "t", ".", "o", "n", "S", "o", "u", "n", "d", "(", "D", "e", "t", "e", "c", "t", "e", "d", "S", "o", "u", "n", "d", ".", "L", "o", "u", "d", ",", " ", "f", "u", "n", "c", "t", "i", "o", "n", " ", "(", ")", " ", "{">>)
      @@ ("input.onSound(DetectedSound.Quiet, function () {" :> <<"i", "n", "p", "u", "t", ".", "o", "n", "S", "o", "u", "n", "d", "(", "D", "e", "t", "e", "c", "t", "e", "d", "S", "o", "u", "n", "d", ".", "Q", "u", "i", "e", "t", ",", " ", "f", "u", "n", "c", "t", "i", "o", "n", " ", "(", ")", " ", "{">>)
      @@ ("radio.onReceivedString(function (receivedString) {" :> <<"r", "a", "d", "i", "o", ".", "o", "n", "R", "e", "c", "e", "i", "v", "e", "d", "S", "t", "r", "i", "n", "g", "(", "f", "u", "n", "c", "t", "i", "o", "n", " ", "(", "r", "e", "c", "e", "i", "v", "e", "d", "S", "t", "r", "i", "n", "g", ")", " ", "{">>)
      @@ ("input.onScreenUp(function () {" :> <<"i", "n", "p", "u", "t", ".", "o", "n", "S", "c", "r", "e", "e", "n", "U", "p", "(", "f", "u", "n", "c", "t", "i", "o", "n", " ", "(", ")", " ", "{">>)
      @@ ("input.onScreenDown(function () {" :> <<"i", "n", "p", "u", "t", ".", "o", "n", "S", "c", "r", "e", "e", "n", "D", "o", "w", "n", "(", "f", "u", "n", "c", "t", "i", "o", "n", " ", "(", ")", " ", "{">>)
      @@ ("input.onGesture(Gesture.TiltLeft, function () {" :> <<"i", "n", "p", "u", "t", ".", "o", "n", "G", "e", "s", "t", "u", "r", "e", "(", "G", "e", "s", "t", "u", "r", "e", ".", "T", "i", "l", "t", "L", "e", "f", "t", ",", " ", "f", "u", "n", "c", "t", "i", "o", "n", " ", "(", ")", " ", "{">>)
      @@ ("input.onGesture(Gesture.TiltRight, function () {" :> <<"i", "n", "p", "u", "t", ".", "o", "n", "G", "e", "s", "t", "u", "r", "e", "(", "G", "e", "s", "t", "u", "r", "e", ".", "T", "i", "l", "t", "R", "i", "g", "h", "t", ",", " ", "f", "u", "n", "c", "t", "i", "o", "n", " ", "(", ")", " ", "{">>)
      @@ ("input.onLogoUp(function () {" :> <<"i", "n", "p", "u", "t", ".", "o", "n", "L", "o", "g", "o", "U", "p", "(", "f", "u", "n", "c", "t", "i", "o", "n", " ", "(", ")", " ", "{">>)
      @@ ("input.onLogoDown(function () {" :> <<"i", "n", "p", "u", "t", ".", "o", "n", "L", "o", "g", "o", "D", "o", "w", "n", "(", "f", "u", "n", "c", "t", "i", "o", "n", " ", "(", ")", " ", "{">>)
      @@ ("group" :> <<"g", "r", "o", "u", "p">>)
      @@ ("message" :> <<"m", "e", "s", "s", "a", "g", "e">>)
      @@ ("condition" :> <<"c", "o", "n", "d", "i", "t", "i", "o", "n">>)
      @@ ("then" :> <<"t", "h", "e", "n">>)
      @@ ("else" :> <<"e", "l", "s", "e">>)
      @@ ("actions" :> <<"a", "c", "t", "i", "o", "n", "s">>)
      @@ ("{{actions}}" :> <<"{", "{", "a", "c", "t", "i", "o", "n", "s", "}", "}">>)
      @@ ("{{condition}}" :> <<"{", "{", "c", "o", "n", "d", "i", "t", "i", "o", "n", "}", "}">>)
      @@ ("{{then}}" :> <<"{", "{", "t", "h", "e", "n", "}", "}">>)
      @@ ("{{else}}" :> <<"{", "{", "e", "l", "s", "e", "}", "}">>)
      @@ ("{{group}}" :> <<"{", "{", "g", "r", "o", "u", "p", "}", "}">>)
      @@ ("{{message}}" :> <<"{", "{", "m", "e", "s", "s", "a", "g", "e", "}", "}">>)
      @@ ("07" :> <<"0", "7">>)

JS_tickNL == <<"U+0060", "\n">>
JS_NLtick == <<"\n", "U+0060">>
JS_sendString == <<"r", "a", "d", "i", "o", ".", "s", "e", "n", "d", "S", "t", "r", "i", "n", "g", "(", "\"">>
JS_quoteClose == <<"\"", ")">>
TPL_grid == <<"b", "a", "s", "i", "c", ".", "s", "h", "o", "w", "L", "e", "d", "s", "(", "U+0060", "\n", "{", "{", "g", "r", "i", "d", "}", "}", "\n", "U+0060", ")">>

(***************************************************************************)
(* Characters and the str methods the source uses.                         *)
(***************************************************************************)
Whitespace == {" ", "\t", "\r"}

LowerCase == <<"a", "b", "c", "d", "e", "f", "g", "h", "i", "j", "k", "l", "m",
               "n", "o", "p", "q", "r", "s", "t", "u", "v", "w", "x", "y", "z",
               "U+0440", "U+043E">>

UpperCase == <<"A", "B", "C", "D", "E", "F", "G", "H", "I", "J", "K", "L", "M",
               "N", "O", "P", "Q", "R", "S", "T", "U", "V", "W", "X", "Y", "Z",
               "U+0420", "U+041E">>

\* ch.upper() of one character
UpperChar(ch) ==
    IF \E k \in DOMAIN LowerCase : LowerCase[k] = ch
    THEN UpperCase[CHOOSE k \in DOMAIN LowerCase : LowerCase[k] = ch]
    ELSE ch

\* s.upper()
Upper(s) == [k \in DOMAIN s |-> UpperChar(s[k])]

MinOf(S) == CHOOSE k \in S : \A j \in S : k <= j
MaxOf(S) == CHOOSE k \in S : \A j \in S : j <= k

\* s with everything before and after the positions keep cut off
Between(s, keep) == IF keep = {} THEN <<>> ELSE SubSeq(s, MinOf(keep), MaxOf(keep))

\* s.strip()
Strip(s) == Between(s, {k \in DOMAIN s : s[k] \notin Whitespace})

\* s.replace(c, "") for a set of one-character strings
RemoveChars(s, cs) == SelectSeq(s, LAMBDA c : c \notin cs)

RECURSIVE Join(_, _)
\* sep.join(parts)
Join(sep, parts) ==
    IF parts = <<>> THEN <<>>
    ELSE IF Len(parts) = 1 THEN parts[1]
    ELSE parts[1] \o sep \o Join(sep, Tail(parts))

RECURSIVE Replace(_, _, _)
\* s.replace(old, new) for a non-empty old
Replace(s, old, new) ==
    IF Len(s) < Len(old) THEN s
    ELSE IF SubSeq(s, 1, Len(old)) = old
         THEN new \o Replace(SubSeq(s, Len(old) + 1, Len(s)), old, new)
         ELSE <<s[1]>> \o Replace(Tail(s), old, new)

\* s.startswith(p)
StartsWith(s, p) == Len(s) >= Len(p) /\ SubSeq(s, 1, Len(p)) = p

\* s cut at the positions cuts[1] < cuts[2] < ...
CutAt(s, cuts) == [k \in 1..(Len(cuts) - 1) |-> SubSeq(s, cuts[k] + 1, cuts[k + 1] - 1)]

\* s.split("\n")
SplitLines(s) ==
    CutAt(s, <<0>> \o SelectSeq([k \in 1..Len(s) |-> k], LAMBDA k : s[k] = "\n")
                   \o <<Len(s) + 1>>)

\* str.isdigit(): every character has a digit value; of the characters
\* beyond ASCII, "U+0663" is the Arabic-Indic digit three (a decimal digit)
\* and "U+00B2" the superscript two (a digit that is not decimal)
IsDigit(s) ==
    /\ s # <<>>
    /\ \A k \in DOMAIN s :
          s[k] \in {"0", "1", "2", "3", "4", "5", "6", "7", "8", "9", "U+0663", "U+00B2"}

\* len(df) and df.loc[pos, "command"]
NTokens(d) == Len(d)
At(d, pos) == d[pos + 1]

(***************************************************************************)
(* The mapping tables read from blocks_map (lines 41-49).                  *)
(***************************************************************************)
ICONS == blocks_map.icons
SOUNDS == blocks_map.sounds
PINS == blocks_map.pins
PIN_WRITE_TEMPLATE == blocks_map.templateDigitalWrite
SYNONYMS == blocks_map.synonyms
TEMPLATES == blocks_map.templates

\* dict.get(key, default) on a table held as a function
Get(table, key, default) == IF key \in DOMAIN table THEN table[key] ELSE default

get_icon_code(icon_name) == Get(ICONS, Upper(Strip(icon_name)), Str["IconNames.Heart"])

get_sound_code(sound_name) == Get(SOUNDS, Upper(Strip(sound_name)), Str["soundExpression.happy"])

RECURSIVE render_template(_, _)
\* params is the sequence of <<key, value>> pairs of the dict, in its order
render_template(template_str, params) ==
    IF params = <<>> THEN template_str
    ELSE render_template(
             Replace(template_str, <<"{", "{">> \o params[1][1] \o <<"}", "}">>,
                     params[1][2]),
             Tail(params))

(***************************************************************************)
(* Pin normalizer.                                                         *)
(***************************************************************************)
\* lines 129-130: the synonym of an upper-cased token, if the table has one
apply_synonyms(token_stripped) ==
    IF token_stripped \in DOMAIN SYNONYMS
    THEN Upper(SYNONYMS[token_stripped]) ELSE token_stripped

\* cyr_to_lat with the entry of line 133 only: Cyrillic O stays
cyr_to_lat_er_only(s) == [k \in DOMAIN s |-> IF s[k] = "U+0420" THEN "P" ELSE s[k]]

\* lines 131-135
cyr_to_lat(s) ==
    [k \in DOMAIN s |->
        IF s[k] = "U+0420" THEN "P" ELSE IF s[k] = "U+041E" THEN "O" ELSE s[k]]

\* lines 136-138
po_to_p0(normalized) == IF normalized = Str["PO"] THEN Str["P0"] ELSE normalized

normalize_pin_token(tok) == po_to_p0(cyr_to_lat(apply_synonyms(Upper(Strip(tok)))))

\* the match of the pattern that opens at the "[" at position p: group(1)
\* runs to the first "]" after it
bracket_group(tok, p) ==
    SubSeq(tok, p + 1, MinOf({q \in (p + 2)..Len(tok) : tok[q] = "]"}) - 1)

\* re.search(r'\[([^\]]+)\]', token): the leftmost "[" followed by one or
\* more characters other than "]" and then "]"
bracket_opens(tok) ==
    {p \in DOMAIN tok :
        /\ tok[p] = "["
        /\ p + 1 <= Len(tok) /\ tok[p + 1] # "]"
        /\ \E q \in (p + 2)..Len(tok) : tok[q] = "]"}

bracket_match(tok) ==
    IF bracket_opens(tok) = {} THEN [ok |-> FALSE, group |-> <<>>]
    ELSE [ok |-> TRUE, group |-> bracket_group(tok, MinOf(bracket_opens(tok)))]

(***************************************************************************)
(* Grid sub-parser.                                                        *)
(***************************************************************************)
GRID_NOISE_TOKENS == {<<"+">>, <<"*">>, <<"U+00B7">>, <<"U+2022">>, <<",">>}

NoCell == ""

\* lines 265-271 on the stripped string c
cell_of(c) ==
    IF Len(c) # 1 THEN NoCell
    ELSE IF c[1] \in {"#", "1", "I", "|"} THEN "#"
    ELSE IF c[1] \in {".", "0", "O", "o", ",", "-", "U+00B7", "U+2022"} THEN "."
    ELSE NoCell

\* "#", "." or NoCell (None); ch is a whole token or one character of one
normalize_grid_char(ch) == IF Len(ch) = 0 THEN NoCell ELSE cell_of(Strip(ch))

\* lines 290-296: the chain of replace calls
map_cells(s) ==
    [k \in DOMAIN s |->
        IF s[k] \in {"O", "o", "0", "-"} THEN "."
        ELSE IF s[k] \in {"I", "|", "1"} THEN "#"
        ELSE s[k]]

NoRow == [ok |-> FALSE, row |-> <<>>]

\* checked_row without the test of lines 297-298: a row of any width passes
checked_row_any_width(s) ==
    IF \E k \in DOMAIN s : s[k] \notin {"#", ".", "I", "|"} THEN NoRow
    ELSE [ok |-> TRUE, row |-> s]

\* lines 297-307
checked_row(s) ==
    IF Len(s) # 5 THEN NoRow
    ELSE IF \E k \in DOMAIN s : s[k] \notin {"#", ".", "I", "|"} THEN NoRow
    ELSE [ok |-> TRUE, row |-> s]

\* normalize_grid_row without the replace calls of lines 285-288: spaces
\* inside the row stay
normalize_grid_row_keep_spaces(row_str) == checked_row(map_cells(Strip(row_str)))

\* NoRow is None
normalize_grid_row(row_str) ==
    checked_row(map_cells(RemoveChars(Strip(row_str), {" ", "U+00B7", "U+2022", ","})))

RECURSIVE merge_rows(_, _, _, _)
\* merge_trial without line 343: a merged row counts as one token
merge_trial_uncounted(d, p, merged, lookahead_used, trial) ==
    IF trial.ok
    THEN [ok |-> TRUE, row |-> trial.row, advance |-> 1]
    ELSE merge_rows(d, p, merged, lookahead_used + 1)

\* the while loop of lines 337-345: merged so far, lookahead_used; p is the
\* position of the candidate.  advance is what a found row adds to consumed
\* (lines 343 and 349).
merge_trial(d, p, merged, lookahead_used, trial) ==
    IF trial.ok
    THEN [ok |-> TRUE, row |-> trial.row, advance |-> (1 + lookahead_used) + 1]
    ELSE merge_rows(d, p, merged, lookahead_used + 1)

merge_next(d, p, merged, lookahead_used) ==
    merge_trial(d, p, merged, lookahead_used, normalize_grid_row(merged))

merge_rows(d, p, merged, lookahead_used) ==
    IF lookahead_used < 3 /\ p + 1 + lookahead_used < NTokens(d)
    THEN merge_next(d, p, merged \o At(d, p + 1 + lookahead_used), lookahead_used)
    ELSE [ok |-> FALSE, row |-> <<>>, advance |-> 0]

\* lines 332-349: the row at position p, alone or merged with what follows
row_or_merge(d, p, direct) ==
    IF direct.ok THEN [ok |-> TRUE, row |-> direct.row, advance |-> 1]
    ELSE merge_rows(d, p, At(d, p), 0)

row_at(d, p) == row_or_merge(d, p, normalize_grid_row(At(d, p)))

RECURSIVE grid_row_loop(_, _, _, _, _)
row_found(d, p0, r, rows, consumed, found) ==
    IF ~found.ok THEN [rows |-> rows, consumed |-> consumed]
    ELSE grid_row_loop(d, p0, r + 1, Append(rows, found.row), consumed + found.advance)

\* the for loop of lines 322-349: r counts the iterations of range(5) (the
\* "r -= 1" of line 330 does not change the next value range() yields)
grid_row_loop(d, p0, r, rows, consumed) ==
    IF r >= 5 \/ p0 + consumed >= NTokens(d)
    THEN [rows |-> rows, consumed |-> consumed]
    ELSE IF Strip(At(d, p0 + consumed)) \in GRID_NOISE_TOKENS
    THEN grid_row_loop(d, p0, r + 1, rows, consumed + 1)
    ELSE row_found(d, p0, r, rows, consumed, row_at(d, p0 + consumed))

RECURSIVE expand_glyphs(_, _, _)
expand_cell(tok, k, glyphs, n) ==
    IF n = NoCell THEN [glyphs |-> glyphs, expanded_any |-> FALSE]
    ELSE IF Len(glyphs) + 1 >= 25
    THEN [glyphs |-> Append(glyphs, n), expanded_any |-> TRUE]
    ELSE expand_glyphs(tok, k + 1, Append(glyphs, n))

\* the for loop of lines 369-377 over the characters of tok from position k
expand_glyphs(tok, k, glyphs) ==
    IF k > Len(tok) THEN [glyphs |-> glyphs, expanded_any |-> k > 1]
    ELSE expand_cell(tok, k, glyphs, normalize_grid_char(<<tok[k]>>))

RECURSIVE grid_flat_loop(_, _, _, _)
flat_expanded(d, p0, consumed, e) ==
    IF e.expanded_any THEN grid_flat_loop(d, p0, e.glyphs, consumed + 1)
    ELSE [glyphs |-> e.glyphs, consumed |-> consumed]

flat_cell(d, p0, glyphs, consumed, norm) ==
    IF norm # NoCell THEN grid_flat_loop(d, p0, Append(glyphs, norm), consumed + 1)
    ELSE flat_expanded(d, p0, consumed, expand_glyphs(At(d, p0 + consumed), 1, glyphs))

\* the while loop of lines 358-383
grid_flat_loop(d, p0, glyphs, consumed) ==
    IF ~(p0 + consumed < NTokens(d) /\ Len(glyphs) < 25)
    THEN [glyphs |-> glyphs, consumed |-> consumed]
    ELSE IF Strip(At(d, p0 + consumed)) \in GRID_NOISE_TOKENS
    THEN grid_flat_loop(d, p0, glyphs, consumed + 1)
    ELSE flat_cell(d, p0, glyphs, consumed, normalize_grid_char(At(d, p0 + consumed)))

\* lines 386-389: the cells padded to 25 and cut into 5 rows
CutRows(padded) == [r \in 1..5 |-> SubSeq(padded, 5 * (r - 1) + 1, 5 * r)]

pad_glyphs(glyphs) == CutRows(glyphs \o [k \in 1..(25 - Len(glyphs)) |-> "."])

NoGrid == [ok |-> FALSE, grid |-> <<>>, consumed |-> 0]

\* lines 384-393
flat_grid(flat) ==
    IF flat.glyphs # <<>>
    THEN [ok |-> TRUE, grid |-> Join(<<"\n">>, pad_glyphs(flat.glyphs)),
          consumed |-> flat.consumed]
    ELSE NoGrid

\* lines 350-352, else the fallback
row_grid(d, p0, byrow) ==
    IF Len(byrow.rows) = 5
    THEN [ok |-> TRUE, grid |-> Join(<<"\n">>, byrow.rows), consumed |-> byrow.consumed]
    ELSE flat_grid(grid_flat_loop(d, p0, <<>>, 0))

\* NoGrid is (None, 0); grid is the newline-joined string
parse_grid_from(d, base_index, start_offset) ==
    row_grid(d, base_index + start_offset,
             grid_row_loop(d, base_index + start_offset, 0, <<>>, 0))

\* lines 405-412
grid_or_icon(d, p, g) ==
    IF g.ok THEN [kind |-> "grid", value |-> g.grid, consumed |-> g.consumed]
    ELSE IF p < NTokens(d) /\ At(d, p) # <<>>
    THEN [kind |-> "icon", value |-> get_icon_code(At(d, p)), consumed |-> 1]
    ELSE [kind |-> "none", value |-> <<>>, consumed |-> 0]

\* kind is "grid", "icon" or "none"
parse_show_common(d, base_index, show_offset) ==
    grid_or_icon(d, base_index + show_offset, parse_grid_from(d, base_index, show_offset))

(***************************************************************************)
(* Action sequence parser.                                                 *)
(***************************************************************************)
Stoppers == {Str["ELSE"], Str["ON"], Str["IF"]}

\* "    " + " ".join(list(r))
spaced_row(r) == Str["    "] \o Join(<<" ">>, [c \in DOMAIN r |-> <<r[c]>>])

\* lines 164-169 and 808-813
grid_statement(grid_render, grid_template) ==
    IF grid_template # <<>>
    THEN render_template(grid_template, << <<Str["grid"], grid_render>> >>)
    ELSE Str["basic.showLeds("] \o JS_tickNL \o grid_render \o JS_NLtick \o Str[");"]

\* lines 161-163 and 805-807
spaced_rows(rows) == [k \in DOMAIN rows |-> spaced_row(rows[k])]

\* the showLeds statement of a grid string
render_grid(grid) ==
    grid_statement(Join(<<"\n">>, spaced_rows(SplitLines(grid))),
                   Get(TEMPLATES, "grid", <<>>))

\* lines 197-200 and 819-822: the digitalWritePin statement; val is "0" or "1"
render_pin_write(pin_cmd, val) ==
    IF PIN_WRITE_TEMPLATE # <<>>
    THEN render_template(PIN_WRITE_TEMPLATE,
                         << <<Str["pin"], pin_cmd>>, <<Str["value"], <<val>> >> >>)
    ELSE Str["pins.digitalWritePin(DigitalPin."] \o pin_cmd \o <<",", " ", val, ")">>

RECURSIVE pin_lookahead(_, _, _)
pin_bracket(d, p, j, m) ==
    IF m.ok THEN [found |-> TRUE, pin_cmd |-> normalize_pin_token(m.group), j |-> j]
    ELSE pin_lookahead(d, p, j + 1)

\* the for loop of lines 183-194 (and 210-221, 514-524, 532-542) from j: the
\* first of the next tokens that holds a bracketed pin.  p is the position of
\* TURN ON / TURN OFF.
pin_lookahead(d, p, j) ==
    IF j >= 6 \/ j >= NTokens(d) - p
    THEN [found |-> FALSE, pin_cmd |-> <<>>, j |-> 0]
    ELSE pin_bracket(d, p, j, bracket_match(At(d, p + j)))

\* "if pin_cmd and pin_cmd in PINS"
pin_ok(look) == look.found /\ look.pin_cmd # <<>> /\ look.pin_cmd \in DOMAIN PINS

\* an unrecognised token that is not advanced over
Skip_in_place == [actions |-> <<>>, advance |-> 0]

Skip == [actions |-> <<>>, advance |-> 1]

\* lines 160-175
show_action(show) ==
    IF show.kind = "grid"
    THEN [actions |-> <<render_grid(show.value)>>, advance |-> 1 + show.consumed]
    ELSE IF show.kind = "icon"
    THEN [actions |-> <<Str["basic.showIcon("] \o show.value \o Str[")"]>>, advance |-> 2]
    ELSE Skip

\* lines 196-202 and 223-229
pin_action(look, val) ==
    IF pin_ok(look)
    THEN [actions |-> <<render_pin_write(look.pin_cmd, val)>>, advance |-> 1 + look.j]
    ELSE Skip

\* lines 233-237
message_action(msg) ==
    IF msg # <<>>
    THEN [actions |-> <<JS_sendString \o msg \o JS_quoteClose>>, advance |-> 2]
    ELSE Skip

\* lines 240-244
sound_action(sound) ==
    [actions |-> <<Str["music.play(music.builtinPlayableSoundEffect("]
                     \o get_sound_code(sound)
                     \o Str["), music.PlaybackMode.UntilDone)"]>>,
     advance |-> 2]

\* one round of the while loop of parse_actions_from on the token next_cmd
\* at position p: the actions it appends and what it adds to i (0: break)
action_at(d, base_index, i, p, next_cmd) ==
    IF next_cmd \in Stoppers THEN [actions |-> <<>>, advance |-> 0]
    ELSE IF next_cmd = Str["SHOW"] /\ p + 1 < NTokens(d)
    THEN show_action(parse_show_common(d, base_index, i + 1))
    ELSE IF next_cmd = Str["TURN ON"] THEN pin_action(pin_lookahead(d, p, 1), "1")
    ELSE IF next_cmd = Str["TURN OFF"] THEN pin_action(pin_lookahead(d, p, 1), "0")
    ELSE IF next_cmd = Str["SEND A MESSAGE"] /\ p + 1 < NTokens(d)
    THEN message_action(At(d, p + 1))
    ELSE IF next_cmd = Str["PLAY SOUND"] /\ p + 1 < NTokens(d)
    THEN sound_action(At(d, p + 1))
    ELSE Skip

action_step(d, base_index, i) ==
    action_at(d, base_index, i, base_index + i, At(d, base_index + i))

RECURSIVE actions_loop(_, _, _, _)
actions_next(d, base_index, i, actions, s) ==
    IF s.advance = 0 THEN [actions |-> actions, i |-> i]
    ELSE actions_loop(d, base_index, i + s.advance, actions \o s.actions)

\* the while loop of lines 153-248
actions_loop(d, base_index, i, actions) ==
    IF ~(base_index + i < NTokens(d)) THEN [actions |-> actions, i |-> i]
    ELSE actions_next(d, base_index, i, actions, action_step(d, base_index, i))

\* line 250
actions_result(r, start_offset) == [actions |-> r.actions, consumed |-> r.i - start_offset]

\* returns (actions, consumed_relative_offset)
parse_actions_from(d, base_index, start_offset) ==
    actions_result(actions_loop(d, base_index, start_offset, <<>>), start_offset)

(***************************************************************************)
(* parse_commands: helpers of the scan.                                    *)
(***************************************************************************)
\* Python's None where a token is expected
None == <<"<None>">>

\* token(pos), lines 455-456
token(d, pos) == IF 0 <= pos /\ pos < NTokens(d) THEN At(d, pos) ELSE None

\* range(a, b) as a set
Range(a, b) == {k \in a..(b - 1) : TRUE}

\* mark_consumed, lines 458-460
mark_consumed(consumed, base_index, start_offset, consumed_rel) ==
    consumed \cup Range(base_index + start_offset, base_index + consumed_rel)

\* event_parsed without the test of line 464: the handler is appended
\* whatever its body
event_parsed_always(pcmds, consumed, base_index, start_offset, handler, r) ==
    [parsed_commands |->
         [pcmds EXCEPT !.event_handlers =
              Append(@, [handler EXCEPT !.actions = r.actions])],
     consumed_indices |->
         mark_consumed(consumed, base_index, start_offset, r.consumed),
     appended |-> TRUE, consumed_rel |-> r.consumed]

\* lines 464-468 on the result r of parse_actions_from
event_parsed(pcmds, consumed, base_index, start_offset, handler, r) ==
    IF r.actions # <<>>
    THEN [parsed_commands |->
              [pcmds EXCEPT !.event_handlers =
                   Append(@, [handler EXCEPT !.actions = r.actions])],
          consumed_indices |->
              mark_consumed(consumed, base_index, start_offset, r.consumed),
          appended |-> TRUE, consumed_rel |-> r.consumed]
    ELSE [parsed_commands |-> pcmds, consumed_indices |-> consumed,
          appended |-> FALSE, consumed_rel |-> r.consumed]

\* handle_event, lines 462-468, on the model pcmds and the consumed set
handle_event(pcmds, consumed, d, base_index, start_offset, handler) ==
    event_parsed(pcmds, consumed, base_index, start_offset, handler,
                 parse_actions_from(d, base_index, start_offset))

\* a handler dict before its actions are attached; button is None unless
\* the type is "button"
Handler(type, button) == [type |-> type, button |-> button, actions |-> <<>>]

NoTrigger == [ok |-> FALSE, start |-> 0, handler |-> Handler("", None)]
Trigger(start, type, button) ==
    [ok |-> TRUE, start |-> start, handler |-> Handler(type, button)]

\* lines 550-573 on value[3:]
merged_event(event_part) ==
    IF event_part = Str["TILT LEFT"] THEN Trigger(1, "tilt_left", None)
    ELSE IF event_part = Str["TILT RIGHT"] THEN Trigger(1, "tilt_right", None)
    ELSE IF event_part = Str["TILT UP"] THEN Trigger(1, "tilt_up", None)
    ELSE IF event_part = Str["TILT DOWN"] THEN Trigger(1, "tilt_down", None)
    ELSE IF event_part = Str["SHAKE"] THEN Trigger(1, "shake", None)
    ELSE IF event_part = Str["RADIO RECEIVES"] THEN Trigger(1, "radio_receives_message", None)
    ELSE IF event_part = Str["HEAR LOUD SOUND"] THEN Trigger(1, "sound_loud", None)
    ELSE IF event_part = Str["HEAR QUIET SOUND"] THEN Trigger(1, "sound_quiet", None)
    ELSE NoTrigger

\* lines 548-573: the trigger of a combined "ON <phrase>" token
merged_trigger(tok) == merged_event(SubSeq(tok, 4, Len(tok)))

\* lines 576-654 on the four tokens after ON, first match wins
split_event(t1, t2, t3, t4) ==
    IF t1 = Str["SHAKE"] THEN Trigger(2, "shake", None)
    ELSE IF t1 = Str["HEAR"] /\ t2 = Str["LOUD"] /\ t3 = Str["SOUND"] THEN Trigger(4, "sound_loud", None)
    ELSE IF t1 = Str["HEAR"] /\ t2 = Str["QUIET"] /\ t3 = Str["SOUND"] THEN Trigger(4, "sound_quiet", None)
    ELSE IF t1 = Str["RADIO"] /\ t2 = Str["RECEIVES"] THEN Trigger(3, "radio_receives_message", None)
    ELSE IF t1 = Str["RADIO RECEIVES"] THEN Trigger(2, "radio_receives_message", None)
    ELSE IF t1 = Str["HEAR LOUD SOUND"] THEN Trigger(2, "sound_loud", None)
    ELSE IF t1 = Str["HEAR QUIET SOUND"] THEN Trigger(2, "sound_quiet", None)
    ELSE IF \/ (t1 = Str["PRESS"] /\ t2 = Str["BUTTON"] /\ t3 \in {Str["A"], Str["B"]})
            \/ (t1 = Str["PRESS BUTTON"] /\ t2 \in {Str["A"], Str["B"]})
         THEN Trigger(IF t1 = Str["PRESS"] THEN 4 ELSE 3, "button",
                      IF t1 = Str["PRESS"] THEN t3 ELSE t2)
    ELSE IF \/ (t1 = Str["PRESS"] /\ t2 = Str["BUTTON"] /\ t3 = Str["A"] /\ t4 = Str["B"])
            \/ (t1 = Str["PRESS BUTTON"] /\ t2 = Str["A"] /\ t3 = Str["B"])
         THEN Trigger(IF t1 = Str["PRESS"] THEN 5 ELSE 4, "button", Str["AB"])
    ELSE IF t1 = Str["TILT"] /\ t2 = Str["UP"] THEN Trigger(3, "tilt_up", None)
    ELSE IF t1 = Str["TILT"] /\ t2 = Str["DOWN"] THEN Trigger(3, "tilt_down", None)
    ELSE IF t1 = Str["TILT"] /\ t2 = Str["LEFT"] THEN Trigger(3, "tilt_left", None)
    ELSE IF t1 = Str["TILT"] /\ t2 = Str["RIGHT"] THEN Trigger(3, "tilt_right", None)
    ELSE IF t1 = Str["LOGO"] /\ t2 = Str["UP"] THEN Trigger(3, "logo_up", None)
    ELSE IF t1 = Str["LOGO"] /\ t2 = Str["DOWN"] THEN Trigger(3, "logo_down", None)
    ELSE NoTrigger

\* the trigger after an ON token at position i
split_trigger(d, i) ==
    split_event(token(d, i + 1), token(d, i + 2), token(d, i + 3), token(d, i + 4))

\* s[k + 1:] where k is the last position of s that holds a blank, or 0
AfterLast(s, blanks) == SubSeq(s, (IF blanks = {} THEN 0 ELSE MaxOf(blanks)) + 1, Len(s))

\* s.split()[-1] of a stripped string
LastOf(s) == AfterLast(s, {k \in DOMAIN s : s[k] \in Whitespace})

\* tok.split()[-1] of a token that holds a non-blank character
last_word(tok) == LastOf(Strip(tok))

NoCondition == [ok |-> FALSE, js |-> <<>>, consumed |-> 0]

\* cmp_map.get(comparator), lines 691-696; <<>> is None
cmp_op(comparator) ==
    IF comparator = Str["EQUAL TO"] THEN Str["=="]
    ELSE IF comparator = Str["SMALLER THAN"] THEN Str["<"]
    ELSE IF comparator = Str["GREATER THAN"] THEN Str[">"]
    ELSE <<>>

PinNames == {Str["P0"], Str["P1"], Str["P2"]}

\* lines 697-705
comparison(tok0, tok2, left_norm, right_norm, op) ==
    IF op = <<>> THEN NoCondition
    ELSE IF tok0 # None /\ IsDigit(tok0) /\ right_norm \in PinNames
    THEN [ok |-> TRUE,
          js |-> tok0 \o <<" ">> \o op \o <<" ">> \o Str["pins.digitalReadPin(DigitalPin."] \o right_norm \o Str[")"],
          consumed |-> 3]
    ELSE IF left_norm \in PinNames /\ tok2 # None /\ IsDigit(tok2)
    THEN [ok |-> TRUE,
          js |-> Str["pins.digitalReadPin(DigitalPin."] \o left_norm \o Str[")"] \o <<" ">> \o op \o <<" ">> \o tok2,
          consumed |-> 3]
    ELSE NoCondition

\* lines 677-705 on the three tokens at start_idx
condition_of(tok0, tok1, tok2) ==
    IF tok0 = Str["PRESS BUTTON"] /\ tok1 \in {Str["A"], Str["B"], Str["AB"]}
    THEN [ok |-> TRUE, js |-> Str["input.buttonIsPressed(Button."] \o tok1 \o Str[")"], consumed |-> 2]
    ELSE IF tok0 \in {Str["PRESS BUTTON A"], Str["PRESS BUTTON B"], Str["PRESS BUTTON AB"]}
    THEN [ok |-> TRUE, js |-> Str["input.buttonIsPressed(Button."] \o last_word(tok0) \o Str[")"],
          consumed |-> 1]
    ELSE comparison(tok0, tok2,
                    IF tok0 # None THEN normalize_pin_token(tok0) ELSE tok0,
                    IF tok2 # None THEN normalize_pin_token(tok2) ELSE tok2,
                    cmp_op(tok1))

\* parse_single_condition, lines 663-705
parse_single_condition(d, start_idx) ==
    condition_of(token(d, start_idx), token(d, start_idx + 1), token(d, start_idx + 2))

Abandoned == [ok |-> FALSE, condition_js |-> <<>>, pos |-> 0]

\* with_not that passes over a NOT without negating the condition
with_not_skipped(d, pos, cond) ==
    [js |-> cond.js, pos |-> IF token(d, pos) = Str["NOT"] THEN pos + 1 ELSE pos]

\* lines 714-719 and 731-735: a NOT right after a condition negates it; pos
\* is the position after the condition
with_not(d, pos, cond) ==
    IF token(d, pos) = Str["NOT"]
    THEN [js |-> Str["!("] \o cond.js \o Str[")"], pos |-> pos + 1]
    ELSE [js |-> cond.js, pos |-> pos]

\* expect_then without the check of lines 740-741: the IF goes on whatever
\* the token at pos is
expect_then_lenient(d, condition_js, pos) ==
    [ok |-> TRUE, condition_js |-> condition_js, pos |-> pos]

\* lines 739-741
expect_then(d, condition_js, pos) ==
    IF token(d, pos) # Str["THEN"] THEN Abandoned
    ELSE [ok |-> TRUE, condition_js |-> condition_js, pos |-> pos]

\* lines 736-737
joined(d, n1, connector, n2) ==
    expect_then(d, n1.js \o <<" ">> \o (IF connector = Str["AND"] THEN Str["&&"] ELSE Str["||"])
                         \o <<" ">> \o n2.js,
                n2.pos)

\* lines 727-735
second_condition(d, n1, connector, c2) ==
    IF ~c2.ok THEN Abandoned
    ELSE joined(d, n1, connector, with_not(d, n1.pos + 1 + c2.consumed, c2))

\* lines 722-737
after_first(d, n1) ==
    IF token(d, n1.pos) \in {Str["AND"], Str["OR"]}
    THEN second_condition(d, n1, token(d, n1.pos), parse_single_condition(d, n1.pos + 1))
    ELSE expect_then(d, n1.js, n1.pos)

\* lines 710-719
first_condition(d, pos, c1) ==
    IF ~c1.ok THEN Abandoned ELSE after_first(d, with_not(d, pos + c1.consumed, c1))

\* lines 707-741: the condition of the IF at position i and the position of
\* THEN; ok is FALSE where the code runs "continue"
if_header(d, i) == first_condition(d, i + 1, parse_single_condition(d, i + 1))

\* lines 753-766 put together: the bodies of an IF as parse_actions_from
\* returns them and the offsets the code computes
both_bodies(then_r, else_r, start_after_then, else_pos, has_else, has_then,
            start_after_else) ==
    [then_actions |-> then_r.actions, else_actions |-> else_r.actions,
     start_after_then |-> start_after_then, consumed |-> then_r.consumed,
     else_pos |-> else_pos, has_else |-> has_else, has_then |-> has_then,
     start_after_else |-> start_after_else, else_consumed |-> else_r.consumed]

\* lines 757-761
else_branch(d, i, then_r, start_after_then, else_pos, has_then, start_after_else) ==
    both_bodies(then_r, parse_actions_from(d, i, start_after_else), start_after_then,
                else_pos, TRUE, has_then, start_after_else)

\* lines 754-755
else_at(d, i, then_r, start_after_then, else_pos) ==
    IF else_pos < NTokens(d) /\ token(d, else_pos) = Str["ELSE"]
    THEN else_branch(d, i, then_r, start_after_then, else_pos,
                     token(d, else_pos + 1) = Str["THEN"],
                     start_after_then + then_r.consumed + 1
                        + (IF token(d, else_pos + 1) = Str["THEN"] THEN 1 ELSE 0))
    ELSE both_bodies(then_r, [actions |-> <<>>, consumed |-> 0], start_after_then,
                     else_pos, FALSE, FALSE, start_after_then + then_r.consumed + 1)

\* then_branch with line 753 taken as index + start_after_then: ELSE is
\* looked for where the THEN body starts
then_branch_at_start(d, i, start_after_then, then_r) ==
    else_at(d, i, then_r, start_after_then, i + start_after_then)

\* line 745
then_branch(d, i, start_after_then, then_r) ==
    else_at(d, i, then_r, start_after_then, i + start_after_then + then_r.consumed)

\* lines 743-766: the two bodies of the IF at position i whose THEN is at pos
if_bodies(d, i, pos) ==
    then_branch(d, i, (pos - i) + 1, parse_actions_from(d, i, (pos - i) + 1))

\* if_marked without lines 756-765: only the THEN body is marked
if_marked_then_only(i, b) ==
    Range(i + b.start_after_then, i + b.start_after_then + b.consumed)

\* lines 747-748, 756, 759 and 763-764: what the IF at position i adds to
\* the consumed set
if_marked(i, b) ==
    Range(i + b.start_after_then, i + b.start_after_then + b.consumed)
      \cup (IF b.has_else
            THEN {b.else_pos}
                   \cup (IF b.has_then THEN {b.else_pos + 1} ELSE {})
                   \cup Range(i + b.start_after_else,
                              i + b.start_after_else + b.else_consumed)
            ELSE {})

\* the top-level message lookup of lines 485-492 from offset i
RECURSIVE message_lookup(_, _, _)
message_lookup(d, base_index, i) ==
    IF i >= 5 THEN <<>>
    ELSE IF base_index + i < NTokens(d)
            /\ At(d, base_index + i) \notin
                 {Str["ON"], Str["SHOW"], Str["TURN"], Str["PLAY"], Str["IF"], Str["GET"], Str["SEND"]}
         THEN At(d, base_index + i)
         ELSE message_lookup(d, base_index, i + 1)

(***************************************************************************)
(* parse_commands: the scan loop, one action per branch of its body.       *)
(***************************************************************************)
EmptyModel ==
    [channel |-> <<>>, actions |-> <<>>, event_handlers |-> <<>>, conditional |-> <<>>]

Action(type, val) == [type |-> type, value |-> val]

Dispatch == pc = "scan" /\ index < NTokens(df) /\ index \notin consumed_indices

value == At(df, index)

Emit(kind) == emitted' = emitted \cup {[idx |-> index, kind |-> kind]}

\* parsed_commands['actions'].append(action)
AppendAction(action) ==
    /\ parsed_commands' = [parsed_commands EXCEPT !.actions = Append(@, action)]
    /\ Emit("action")

Frame == WebFrame /\ UNCHANGED <<blocks_map, df, pc, arg, ret>>

\* line 474: a consumed index is skipped
ScanConsumed ==
    /\ pc = "scan" /\ index < NTokens(df) /\ index \in consumed_indices
    /\ index' = index + 1
    /\ UNCHANGED <<consumed_indices, parsed_commands, emitted, spans>>
    /\ Frame

\* lines 478-480
ScanChannel ==
    /\ Dispatch /\ value = Str["CHANNEL"]
    /\ parsed_commands' =
         IF index > 0
         THEN [parsed_commands EXCEPT !.channel = <<At(df, index - 1)>>]
         ELSE parsed_commands
    /\ index' = index + 1
    /\ UNCHANGED <<consumed_indices, emitted, spans>>
    /\ Frame

\* lines 494-498
StoreMessage(message_content) ==
    IF message_content # <<>>
    THEN AppendAction(Action("send_message", message_content))
    ELSE UNCHANGED <<parsed_commands, emitted>>

\* lines 483-498
ScanSendA ==
    /\ Dispatch /\ value = Str["SEND A"]
    /\ index + 1 < NTokens(df) /\ At(df, index + 1) = Str["MESSAGE"]
    /\ StoreMessage(message_lookup(df, index, 2))
    /\ index' = index + 1
    /\ UNCHANGED <<consumed_indices, spans>>
    /\ Frame

\* lines 503-508
StoreShow(s) ==
    IF s.kind = "grid" THEN AppendAction(Action("show_grid", s.value))
    ELSE IF s.kind = "icon" THEN AppendAction(Action("show_icon", s.value))
    ELSE UNCHANGED <<parsed_commands, emitted>>

\* lines 501-508
ScanShow ==
    /\ Dispatch /\ value = Str["SHOW"]
    /\ StoreShow(parse_show_common(df, index, 1))
    /\ index' = index + 1
    /\ UNCHANGED <<consumed_indices, spans>>
    /\ Frame

\* lines 526-527 and 544-545
StorePin(type, look) ==
    IF pin_ok(look) THEN AppendAction(Action(type, look.pin_cmd))
    ELSE UNCHANGED <<parsed_commands, emitted>>

\* lines 511-527
ScanTurnOn ==
    /\ Dispatch /\ value = Str["TURN ON"]
    /\ StorePin("turn_on_pin", pin_lookahead(df, index, 1))
    /\ index' = index + 1
    /\ UNCHANGED <<consumed_indices, spans>>
    /\ Frame

\* lines 529-545
ScanTurnOff ==
    /\ Dispatch /\ value = Str["TURN OFF"]
    /\ StorePin("turn_off_pin", pin_lookahead(df, index, 1))
    /\ index' = index + 1
    /\ UNCHANGED <<consumed_indices, spans>>
    /\ Frame

\* the effect of handle_event on the state; h is what it returns
StoreEvent(t, h) ==
    /\ parsed_commands' = h.parsed_commands
    /\ consumed_indices' = h.consumed_indices
    /\ IF h.appended
       THEN /\ Emit("handler")
            /\ spans' = spans \cup
                 {[kind |-> "handler", base |-> index, start |-> t.start,
                   count |-> h.consumed_rel,
                   body |-> Range(index + t.start, index + t.start + h.consumed_rel)]}
       ELSE UNCHANGED <<emitted, spans>>

\* the ON branches: a matched trigger t calls handle_event
OnEvent(t) ==
    IF t.ok
    THEN StoreEvent(t, handle_event(parsed_commands, consumed_indices, df, index,
                                    t.start, t.handler))
    ELSE UNCHANGED <<parsed_commands, consumed_indices, emitted, spans>>

\* lines 548-573
ScanOnMerged ==
    /\ Dispatch /\ StartsWith(value, Str["ON "])
    /\ OnEvent(merged_trigger(value))
    /\ index' = index + 1
    /\ Frame

\* lines 576-654
ScanOn ==
    /\ Dispatch /\ value = Str["ON"]
    /\ OnEvent(split_trigger(df, index))
    /\ index' = index + 1
    /\ Frame

\* lines 746-772: the writes of a well-formed IF with condition h and bodies b
StoreConditional(h, b) ==
    /\ parsed_commands' =
         [parsed_commands EXCEPT !.conditional =
             <<[condition_js |-> h.condition_js,
                then_actions |-> b.then_actions,
                else_actions |-> b.else_actions]>>]
    /\ consumed_indices' = consumed_indices \cup if_marked(index, b)
    /\ Emit("conditional")
    /\ spans' = spans \cup
         {[kind |-> "conditional", base |-> index, start |-> b.start_after_then,
           count |-> b.consumed,
           body |-> Range(index + b.start_after_then,
                          IF b.has_else
                          THEN index + b.start_after_else + b.else_consumed
                          ELSE index + b.start_after_then + b.consumed)]}

IfStep(h) ==
    IF h.ok THEN StoreConditional(h, if_bodies(df, index, h.pos))
    ELSE UNCHANGED <<parsed_commands, consumed_indices, emitted, spans>>

\* lines 657-772
ScanIf ==
    /\ Dispatch /\ value = Str["IF"]
    /\ IfStep(if_header(df, index))
    /\ index' = index + 1
    /\ Frame

\* a token that opens no branch of the if/elif chain
ScanOther ==
    /\ Dispatch
    /\ value \notin {Str["CHANNEL"], Str["SHOW"], Str["TURN ON"], Str["TURN OFF"], Str["ON"], Str["IF"]}
    /\ ~StartsWith(value, Str["ON "])
    /\ ~(value = Str["SEND A"] /\ index + 1 < NTokens(df) /\ At(df, index + 1) = Str["MESSAGE"])
    /\ index' = index + 1
    /\ UNCHANGED <<consumed_indices, parsed_commands, emitted, spans>>
    /\ Frame

\* line 774
Return ==
    /\ pc = "scan" /\ index = NTokens(df)
    /\ pc' = "done"
    /\ WebFrame
    /\ UNCHANGED <<blocks_map, df, index, consumed_indices, parsed_commands,
                   emitted, spans, arg, ret>>

(***************************************************************************)
(* generate_code: the model rendered into the segments of the output.      *)
(***************************************************************************)
RADIO_SETGROUP_TEMPLATE == blocks_map.setGroup
RADIO_SENDSTRING_TEMPLATE == blocks_map.sendString
EVENT_TEMPLATES == blocks_map.events

\* the decimal digits int() accepts, with the ASCII digit str() writes for
\* each; "U+0663" is the Arabic-Indic digit three
DecimalValue ==
    [c \in {"0", "1", "2", "3", "4", "5", "6", "7", "8", "9", "U+0663"} |->
        IF c = "U+0663" THEN "3" ELSE c]

\* the digits of a literal int() accepts: decimal digits, single underscores
\* between them
int_body_ok(body) ==
    /\ body # <<>>
    /\ \A k \in DOMAIN body : body[k] \in DOMAIN DecimalValue \cup {"_"}
    /\ body[1] # "_" /\ body[Len(body)] # "_"
    /\ \A k \in 1..(Len(body) - 1) : ~(body[k] = "_" /\ body[k + 1] = "_")

\* lines 787-791: f"{int(s)}", the text of the number; <<>> is ValueError.
\* int() strips white space and takes a sign; str() writes no leading
\* zero, no plus sign and no sign of zero
int_text(s) ==
    LET t == Strip(s)
        signed == t # <<>> /\ t[1] \in {"+", "-"}
        body == IF signed THEN Tail(t) ELSE t
        digits == [k \in DOMAIN RemoveChars(body, {"_"}) |->
                      DecimalValue[RemoveChars(body, {"_"})[k]]]
        nonzero == {k \in DOMAIN digits : digits[k] # "0"}
    IN  IF ~int_body_ok(body) THEN <<>>
        ELSE IF nonzero = {} THEN <<"0">>
        ELSE (IF signed /\ t[1] = "-" THEN <<"-">> ELSE <<>>)
                \o SubSeq(digits, MinOf(nonzero), Len(digits))

\* a segment appended to code_parts, tagged with the class of its node
Part(kind, text) == [kind |-> kind, text |-> text]

\* lines 788-791
group_statement(channel_num) ==
    IF RADIO_SETGROUP_TEMPLATE # <<>>
    THEN render_template(RADIO_SETGROUP_TEMPLATE, << <<Str["group"], channel_num>> >>)
    ELSE Str["radio.setGroup("] \o channel_num \o Str[");"]

\* lines 785-793: the segments of the channel; channel is <<>> for None
channel_parts(channel) ==
    IF channel = <<>> THEN <<>>
    ELSE IF channel[1] = <<>> \/ int_text(channel[1]) = <<>> THEN <<>>
    ELSE <<Part("channel", group_statement(int_text(channel[1])))>>

\* lines 799-802
message_statement(message) ==
    IF RADIO_SENDSTRING_TEMPLATE # <<>>
    THEN render_template(RADIO_SENDSTRING_TEMPLATE, << <<Str["message"], message>> >>)
    ELSE JS_sendString \o message \o JS_quoteClose \o <<";">>

\* lines 798-828: the segment of a top-level action; None for a type the
\* chain does not know
action_text(action) ==
    IF action.type = "send_message" THEN message_statement(action.value)
    ELSE IF action.type = "show_grid" THEN render_grid(action.value)
    ELSE IF action.type = "show_icon"
    THEN Str["basic.showIcon("] \o get_icon_code(action.value) \o Str[")"]
    ELSE IF action.type = "turn_on_pin" THEN render_pin_write(action.value, "1")
    ELSE IF action.type = "turn_off_pin" THEN render_pin_write(action.value, "0")
    ELSE None

\* lines 835-846 on the joined bodies
conditional_text(condition_js, then_code, else_code) ==
    IF else_code # <<>>
    THEN IF Get(TEMPLATES, "ifElse", <<>>) # <<>>
         THEN render_template(TEMPLATES["ifElse"],
                              << <<Str["condition"], condition_js>>,
                                 <<Str["then"], then_code>>, <<Str["else"], else_code>> >>)
         ELSE Str["if ("] \o condition_js \o Str[") {"] \o <<"\n">> \o Str["    "]
                \o then_code \o <<"\n">> \o Str["} else {"] \o <<"\n">> \o Str["    "]
                \o else_code \o <<"\n">> \o Str["}"]
    ELSE IF Get(TEMPLATES, "if", <<>>) # <<>>
         THEN render_template(TEMPLATES["if"],
                              << <<Str["condition"], condition_js>>,
                                 <<Str["then"], then_code>> >>)
         ELSE Str["if ("] \o condition_js \o Str[") {"] \o <<"\n">> \o Str["    "]
                \o then_code \o <<"\n">> \o Str["}"]

\* lines 831-846: the segments of the conditional; <<>> when the model has
\* none
conditional_parts(conditional) ==
    IF conditional = <<>> THEN <<>>
    ELSE <<Part("conditional",
                conditional_text(conditional[1].condition_js,
                                 Join(<<"\n">> \o Str["    "], conditional[1].then_actions),
                                 Join(<<"\n">> \o Str["    "], conditional[1].else_actions)))>>

\* the key of a button handler, line 110
button_key(btn) ==
    IF btn = Str["A"] THEN "ON BUTTON A"
    ELSE IF btn = Str["B"] THEN "ON BUTTON B"
    ELSE IF btn = Str["AB"] THEN "ON BUTTON AB"
    ELSE ""

\* lines 94-117; <<>> is None
get_event_template(handler) ==
    IF handler.type = "shake" THEN Get(EVENT_TEMPLATES, "ON SHAKE", <<>>)
    ELSE IF handler.type = "sound_loud" THEN Get(EVENT_TEMPLATES, "HEAR LOUD SOUND", <<>>)
    ELSE IF handler.type = "sound_quiet" THEN Get(EVENT_TEMPLATES, "HEAR QUIET SOUND", <<>>)
    ELSE IF handler.type = "button" /\ button_key(handler.button) \in DOMAIN EVENT_TEMPLATES
    THEN EVENT_TEMPLATES[button_key(handler.button)]
    ELSE IF handler.type = "radio_receives_message"
    THEN Get(EVENT_TEMPLATES, "GET A MESSAGE", <<>>)
    ELSE <<>>

\* lines 855 and 862: every non-empty line of the joined actions indented
indent_lines(actions_plain) ==
    LET lines == SplitLines(actions_plain)
    IN  Join(<<"\n">>,
             [k \in DOMAIN lines |->
                 IF lines[k] # <<>> THEN Str["    "] \o lines[k] ELSE <<>>])

\* fallback_head without the branch of lines 861-863: a shake handler has no
\* hardcoded form
fallback_head_no_shake(handler) ==
    IF handler.type = "button"
    THEN Str["input.onButtonPressed(Button."] \o handler.button \o Str[", function () {"]
    ELSE IF handler.type = "sound_loud" THEN Str["input.onSound(DetectedSound.Loud, function () {"]
    ELSE IF handler.type = "sound_quiet" THEN Str["input.onSound(DetectedSound.Quiet, function () {"]
    ELSE IF handler.type = "radio_receives_message"
    THEN Str["radio.onReceivedString(function (receivedString) {"]
    ELSE IF handler.type = "tilt_up" THEN Str["input.onScreenUp(function () {"]
    ELSE IF handler.type = "tilt_down" THEN Str["input.onScreenDown(function () {"]
    ELSE IF handler.type = "tilt_left" THEN Str["input.onGesture(Gesture.TiltLeft, function () {"]
    ELSE IF handler.type = "tilt_right" THEN Str["input.onGesture(Gesture.TiltRight, function () {"]
    ELSE IF handler.type = "logo_up" THEN Str["input.onLogoUp(function () {"]
    ELSE IF handler.type = "logo_down" THEN Str["input.onLogoDown(function () {"]
    ELSE <<>>

\* lines 861-899: the opening line of the hardcoded form of a handler; <<>>
\* when the chain has no branch for it
fallback_head(handler) ==
    IF handler.type = "shake" THEN Str["input.onGesture(Gesture.Shake, function () {"]
    ELSE IF handler.type = "button"
    THEN IF handler.button \in {Str["A"], Str["B"], Str["AB"]}
         THEN Str["input.onButtonPressed(Button."] \o handler.button \o Str[", function () {"]
         ELSE <<>>
    ELSE IF handler.type = "sound_loud" THEN Str["input.onSound(DetectedSound.Loud, function () {"]
    ELSE IF handler.type = "sound_quiet" THEN Str["input.onSound(DetectedSound.Quiet, function () {"]
    ELSE IF handler.type = "radio_receives_message"
    THEN Str["radio.onReceivedString(function (receivedString) {"]
    ELSE IF handler.type = "tilt_up" THEN Str["input.onScreenUp(function () {"]
    ELSE IF handler.type = "tilt_down" THEN Str["input.onScreenDown(function () {"]
    ELSE IF handler.type = "tilt_left" THEN Str["input.onGesture(Gesture.TiltLeft, function () {"]
    ELSE IF handler.type = "tilt_right" THEN Str["input.onGesture(Gesture.TiltRight, function () {"]
    ELSE IF handler.type = "logo_up" THEN Str["input.onLogoUp(function () {"]
    ELSE IF handler.type = "logo_down" THEN Str["input.onLogoDown(function () {"]
    ELSE <<>>

\* lines 852-899 on the template, the hardcoded opening line and the
\* indented actions; None when nothing is appended
handler_form(template, head, indented) ==
    IF template # <<>>
    THEN render_template(template, << <<Str["actions"], indented>> >>)
    ELSE IF head # <<>> THEN head \o <<"\n">> \o indented \o <<"\n">> \o Str["})"]
    ELSE None

\* lines 850-899: the segment of one event handler
handler_text(handler) ==
    handler_form(get_event_template(handler), fallback_head(handler),
                 indent_lines(Join(<<"\n">>, handler.actions)))

\* the loops of lines 797 and 849: one segment for each node that the body
\* of the loop appends one for
node_parts(kind, texts) ==
    SelectSeq([k \in DOMAIN texts |-> Part(kind, texts[k])], LAMBDA p : p.text # None)

\* generate_code with the loop of line 849 ahead of the block of line 831:
\* the event handlers come before the conditional
generate_code_handlers_first(pcmds) ==
    channel_parts(pcmds.channel)
      \o node_parts("action", [k \in DOMAIN pcmds.actions |-> action_text(pcmds.actions[k])])
      \o node_parts("handler",
                    [k \in DOMAIN pcmds.event_handlers |->
                        handler_text(pcmds.event_handlers[k])])
      \o conditional_parts(pcmds.conditional)

\* code_parts on return: the channel, the top-level actions, the
\* conditional, the event handlers
generate_code(pcmds) ==
    channel_parts(pcmds.channel)
      \o node_parts("action", [k \in DOMAIN pcmds.actions |-> action_text(pcmds.actions[k])])
      \o conditional_parts(pcmds.conditional)
      \o node_parts("handler",
                    [k \in DOMAIN pcmds.event_handlers |->
                        handler_text(pcmds.event_handlers[k])])

\* line 901: the returned text
output_text(code_parts) ==
    Join(<<"\n", "\n">>, [k \in DOMAIN code_parts |-> code_parts[k].text])

\* main, line 940: generate_code on the model parse_commands returned
Generate ==
    /\ pc = "done"
    /\ ret' = generate_code(parsed_commands)
    /\ pc' = "generated"
    /\ WebFrame
    /\ UNCHANGED <<blocks_map, df, index, consumed_indices, parsed_commands,
                   emitted, spans, arg>>

(***************************************************************************)
(* Mappings and inputs.                                                    *)
(***************************************************************************)
NoTable == [k \in {} |-> <<>>]

\* line 39: the mapping used when static/blocks_map.json cannot be loaded
FallbackMap ==
    [icons |-> NoTable, sounds |-> NoTable, pins |-> NoTable,
     templateDigitalWrite |-> <<>>, synonyms |-> NoTable, templates |-> NoTable,
     setGroup |-> <<>>, sendString |-> <<>>, events |-> NoTable]

\* a loaded mapping file: icons, sounds, the three pins, a pin-write
\* template, a grid template and no other template
LoadedMap ==
    [icons |-> (Str["HAPPY"] :> Str["IconNames.Happy"]) @@ (Str["SAD"] :> Str["IconNames.Sad"]),
     sounds |-> (Str["GIGGLE"] :> Str["soundExpression.giggle"]),
     pins |-> (Str["P0"] :> Str["P0"]) @@ (Str["P1"] :> Str["P1"]) @@ (Str["P2"] :> Str["P2"]),
     templateDigitalWrite |-> Str["pins.digitalWritePin(DigitalPin.{{pin}}, {{value}})"],
     synonyms |-> NoTable,
     templates |-> ("grid" :> TPL_grid),
     setGroup |-> <<>>, sendString |-> <<>>, events |-> NoTable]

\* the templates of a mapping file that has them all: events, grid, if,
\* ifElse, pin write, radio
AllTemplates ==
    [events |->
        [key \in {"ON SHAKE", "HEAR LOUD SOUND", "HEAR QUIET SOUND", "ON BUTTON A",
                  "ON BUTTON B", "ON BUTTON AB", "GET A MESSAGE"} |->
            <<"/", "/", " ">> \o [k \in 1..Len(key) |-> "*"] \o <<"\n">>
               \o (IF key = "ON SHAKE" THEN Str["input.onGesture(Gesture.Shake, function () {"]
                   ELSE IF key = "HEAR LOUD SOUND"
                   THEN Str["input.onSound(DetectedSound.Loud, function () {"]
                   ELSE IF key = "HEAR QUIET SOUND"
                   THEN Str["input.onSound(DetectedSound.Quiet, function () {"]
                   ELSE IF key = "GET A MESSAGE"
                   THEN Str["radio.onReceivedString(function (receivedString) {"]
                   ELSE Str["input.onButtonPressed(Button."]
                          \o (IF key = "ON BUTTON A" THEN Str["A"]
                              ELSE IF key = "ON BUTTON B" THEN Str["B"] ELSE Str["AB"])
                          \o Str[", function () {"])
               \o <<"\n">> \o Str["{{actions}}"] \o <<"\n">> \o Str["})"]],
     grid |-> TPL_grid,
     if |-> Str["if ("] \o Str["{{condition}}"] \o Str[") {"] \o <<"\n">> \o Str["    "]
              \o Str["{{then}}"] \o <<"\n">> \o Str["}"],
     ifElse |-> Str["if ("] \o Str["{{condition}}"] \o Str[") {"] \o <<"\n">> \o Str["    "]
                  \o Str["{{then}}"] \o <<"\n">> \o Str["} else {"] \o <<"\n">> \o Str["    "]
                  \o Str["{{else}}"] \o <<"\n">> \o Str["}"],
     pinWrite |-> Str["pins.digitalWritePin(DigitalPin.{{pin}}, {{value}})"],
     setGroup |-> Str["radio.setGroup("] \o Str["{{group}}"] \o Str[")"],
     sendString |-> JS_sendString \o Str["{{message}}"] \o JS_quoteClose]

\* a loaded mapping file in which the templates named in absent are missing
TemplateMap(absent) ==
    [LoadedMap EXCEPT
        !.events = IF "events" \in absent THEN NoTable ELSE AllTemplates.events,
        !.templates =
            [key \in {"grid", "if", "ifElse"} \ absent |->
                IF key = "grid" THEN AllTemplates.grid
                ELSE IF key = "if" THEN AllTemplates.if ELSE AllTemplates.ifElse],
        !.templateDigitalWrite =
            IF "pinWrite" \in absent THEN <<>> ELSE AllTemplates.pinWrite,
        !.setGroup = IF "radio" \in absent THEN <<>> ELSE AllTemplates.setGroup,
        !.sendString = IF "radio" \in absent THEN <<>> ELSE AllTemplates.sendString]

TemplateMaps ==
    {TemplateMap(absent) :
        absent \in SUBSET {"events", "grid", "if", "ifElse", "pinWrite", "radio"}}

\* a loaded mapping file with a synonym table
SynonymMap ==
    [LoadedMap EXCEPT !.synonyms = (<<"P", "P">> :> <<"O", "P">>) @@ (<<"O", "P">> :> <<"p", "1">>)]

MaxLen == 3
MaxBody == 3
MaxAhead == 6

RECURSIVE SeqsUpTo(_, _)
\* the sequences over S of length at most n
SeqsUpTo(S, n) ==
    IF n = 0 THEN {<<>>}
    ELSE LET shorter == SeqsUpTo(S, n - 1)
         IN  shorter \cup {Append(s, x) : s \in {t \in shorter : Len(t) = n - 1}, x \in S}


\* every sequence of at most MaxLen tokens of a vocabulary of top-level
\* commands and their arguments
FreeInputs ==
    SeqsUpTo({Str["CHANNEL"], Str["7"], Str["SEND A"], Str["MESSAGE"], Str["SHOW"],
              Str["HAPPY"], Str["TURN ON"], Str["TURN OFF"], Str["[p1]"], Str["ON SHAKE"],
              Str["IF"]},
             MaxLen)

\* every sequence of at most MaxBody tokens of a vocabulary of body tokens
Bodies ==
    SeqsUpTo({Str["SHOW"], Str["HAPPY"], Str["TURN ON"], Str["LED[PO]"],
              Str["SEND A MESSAGE"], Str["PLAY SOUND"], Str["ON"], Str["ELSE"]},
             MaxBody)

ShortBodies ==
    {<<>>, <<Str["HAPPY"]>>, <<Str["SHOW"], Str["HAPPY"]>>, <<Str["SHOW"], Str["SAD"]>>,
     <<Str["TURN OFF"], Str["??"], Str["LED[PO]"]>>,
     <<Str["??"], Str["SHOW"], Str["#"], Str["0"], Str["PLAY SOUND"], Str["GIGGLE"]>>}

\* the trigger phrases after an ON token, split at every place OCR splits them
SplitForms ==
    {<<Str["SHAKE"]>>, <<Str["HEAR"], Str["LOUD"], Str["SOUND"]>>,
     <<Str["HEAR"], Str["QUIET"], Str["SOUND"]>>,
     <<Str["HEAR LOUD SOUND"]>>, <<Str["HEAR QUIET SOUND"]>>,
     <<Str["RADIO"], Str["RECEIVES"]>>, <<Str["RADIO RECEIVES"]>>,
     <<Str["PRESS"], Str["BUTTON"], Str["A"]>>, <<Str["PRESS"], Str["BUTTON"], Str["B"]>>,
     <<Str["PRESS BUTTON"], Str["A"]>>, <<Str["PRESS BUTTON"], Str["B"]>>,
     <<Str["PRESS"], Str["BUTTON"], Str["A"], Str["B"]>>,
     <<Str["PRESS BUTTON"], Str["A"], Str["B"]>>,
     <<Str["PRESS"], Str["BUTTON"], Str["AB"]>>, <<Str["PRESS BUTTON"], Str["AB"]>>,
     <<Str["TILT"], Str["UP"]>>, <<Str["TILT"], Str["DOWN"]>>,
     <<Str["TILT"], Str["LEFT"]>>, <<Str["TILT"], Str["RIGHT"]>>,
     <<Str["LOGO"], Str["UP"]>>, <<Str["LOGO"], Str["DOWN"]>>, <<Str["LOGO"]>>}

\* the trigger phrases OCR merges with ON into one token
MergedForms ==
    {Str["SHAKE"], Str["HEAR LOUD SOUND"], Str["HEAR QUIET SOUND"], Str["RADIO RECEIVES"],
     Str["TILT UP"], Str["TILT DOWN"], Str["TILT LEFT"], Str["TILT RIGHT"],
     Str["PRESS BUTTON A"], Str["PRESS BUTTON B"], Str["PRESS BUTTON AB"],
     Str["LOGO"] \o <<" ">> \o Str["UP"], Str["LOGO"] \o <<" ">> \o Str["DOWN"]}

EventInputs ==
    {<<Str["ON"]>> \o t \o b : t \in SplitForms, b \in ShortBodies}
      \cup {<<Str["ON "] \o t>> \o b : t \in MergedForms, b \in ShortBodies}
      \cup {<<Str["ON"], Str["SHAKE"]>> \o b : b \in Bodies}
      \cup {<<Str["ON SHAKE"]>> \o b : b \in Bodies}

\* the token runs between IF and THEN: recognised and unrecognised
\* conditions, each alone, with NOT, and joined by AND or OR
IfHeaders ==
    LET GoodConds ==
            {<<Str["PRESS BUTTON"], Str["A"]>>, <<Str["PRESS BUTTON AB"]>>,
             <<Str["1"], Str["EQUAL TO"], Str["PO"]>>,
             <<<<"U+0440", "2">>, Str["GREATER THAN"], Str["0"]>>,
             <<<<"U+00B2">>, Str["EQUAL TO"], Str["PO"]>>}
        BadConds ==
            {<<Str["PRESS"], Str["BUTTON"], Str["A"]>>, <<Str["HAPPY"]>>,
             <<Str["P0"], Str["EQUAL TO"], Str["P1"]>>,
             <<Str["1"], Str["SMALLER THAN"], <<"P", "3">>>>,
             <<Str["1"], <<"E", "Q", "U", "A", "L">>, Str["P0"]>>}
        SecondConds ==
            {<<Str["PRESS BUTTON"], Str["B"]>>, <<Str["PO"], Str["SMALLER THAN"], Str["1"]>>,
             <<Str["HAPPY"]>>}
        OptNot == {<<>>, <<Str["NOT"]>>}
    IN  {c \o n : c \in GoodConds \cup BadConds, n \in OptNot}
          \cup {<<Str["PRESS BUTTON"], Str["A"]>> \o n1 \o <<k>> \o c2 \o n2 :
                  n1 \in OptNot, k \in {Str["AND"], Str["OR"]}, n2 \in OptNot,
                  c2 \in SecondConds}

\* one IF with or without THEN and ELSE, a well-formed IF followed by a
\* second IF, and a second IF behind a THEN body that is empty, ends in
\* TURN ON or is a SHOW
IfInputs ==
    LET OptThen == {<<>>, <<Str["THEN"]>>}
        ElseParts ==
            {<<>>} \cup {<<Str["ELSE"]>> \o t \o b : t \in OptThen, b \in ShortBodies}
    IN  {<<Str["IF"]>> \o h \o t \o b \o e :
            h \in IfHeaders, t \in OptThen, b \in ShortBodies, e \in ElseParts}
          \cup {<<Str["IF"], Str["PRESS BUTTON"], Str["A"], Str["THEN"]>> \o b
                   \o <<Str["ELSE"], Str["SHOW"], Str["HAPPY"]>> : b \in Bodies}
          \cup {<<Str["IF"], Str["PRESS BUTTON"], Str["B"], Str["THEN"], Str["SHOW"],
                   Str["SAD"], Str["IF"]>> \o h \o t \o <<Str["SHOW"], Str["HAPPY"]>> :
                   h \in IfHeaders, t \in OptThen}
          \cup {<<Str["IF"], Str["PRESS BUTTON"], Str["A"], Str["THEN"]>> \o x
                   \o <<Str["IF"], Str["PRESS BUTTON"], Str["B"], Str["THEN"], Str["[P0]"],
                        Str["SHOW"], Str["SAD"]>> :
                   x \in {<<>>, <<Str["TURN ON"]>>, <<Str["SHOW"], Str["HAPPY"]>>}}

\* TURN ON / TURN OFF at the top level and inside a handler body, followed
\* by up to MaxAhead tokens with and without a bracketed pin, and a handler
\* body with a second pin write between TURN ON and its bracket
PinInputs ==
    LET Ahead == {Str["??"], Str["[P9]"], Str["[P0]"]}
    IN  {p \o s : p \in {<<Str["TURN ON"]>>, <<Str["TURN OFF"]>>,
                          <<Str["ON SHAKE"], Str["TURN ON"]>>},
                  s \in SeqsUpTo(Ahead, MaxAhead)}
          \cup {<<Str["ON SHAKE"], Str["TURN ON"]>> \o a \o <<Str["TURN OFF"]>> \o b :
                   a \in SeqsUpTo(Ahead, 2), b \in SeqsUpTo(Ahead, 2)}

\* every sequence of at most MaxTop complete actions, one of each form
MaxTop == 2

CompleteActions ==
    {<<Str["SHOW"], Str["HAPPY"]>>,
     <<Str["SHOW"], Str["#...#"], Str["#...#"], Str["#...#"], Str["#...#"], Str["#...#"]>>,
     <<Str["TURN ON"], Str["[p1]"]>>, <<Str["TURN OFF"], Str["??"], Str["LED[PO]"]>>,
     <<Str["SEND A MESSAGE"], Str["HAPPY"]>>, <<Str["PLAY SOUND"], Str["GIGGLE"]>>}

RECURSIVE Concat(_)
Concat(ss) == IF ss = <<>> THEN <<>> ELSE Head(ss) \o Concat(Tail(ss))

CompleteInputs == {Concat(ss) : ss \in SeqsUpTo(CompleteActions, MaxTop)}

\* string_data.split("\n") has at least one token: the empty text is the
\* sequence of one empty token
Inputs ==
    ((FreeInputs \cup EventInputs \cup IfInputs \cup PinInputs \cup CompleteInputs) \ {<<>>}) \cup {<< <<>> >>}

(***************************************************************************)
(* The specification of one parse_commands call.                           *)
(***************************************************************************)
Init ==
    /\ blocks_map \in {FallbackMap, LoadedMap}
    /\ df \in Inputs
    /\ index = 0
    /\ consumed_indices = {}
    /\ parsed_commands = EmptyModel
    /\ pc = "scan"
    /\ emitted = {}
    /\ spans = {}
    /\ arg = <<>>
    /\ ret = <<>>
    /\ WebInit

Next ==
    \/ ScanConsumed
    \/ ScanChannel
    \/ ScanSendA
    \/ ScanShow
    \/ ScanTurnOn
    \/ ScanTurnOff
    \/ ScanOnMerged
    \/ ScanOn
    \/ ScanIf
    \/ ScanOther
    \/ Return
    \/ Generate

Spec == Init /\ [][Next]_vars


(***************************************************************************)
(* parse_grid_from on its own: a 5x5 grid is written as five row tokens    *)
(* after SHOW and parsed back.                                             *)
(***************************************************************************)
MaxMarks == 1

RECURSIVE SubsetsUpTo(_, _)
\* the subsets of S with at most n elements
SubsetsUpTo(S, n) ==
    IF n = 0 THEN {{}}
    ELSE LET smaller == SubsetsUpTo(S, n - 1)
         IN  smaller \cup {M \cup {x} : M \in smaller, x \in S}

\* the grid whose cells in M hold mark and whose other cells hold rest;
\* cell 5 * (r - 1) + k is column k of row r
grid_of(M, mark, rest) ==
    [r \in 1..5 |-> [k \in 1..5 |-> IF 5 * (r - 1) + k \in M THEN mark ELSE rest]]

\* the grids that differ from the blank or from the full grid in at most
\* MaxMarks cells, three sample grids (a checkerboard, the diagonals, a
\* heart), and the sample grids with one cell flipped
Grids ==
    LET SampleGrids ==
            {grid_of({c \in 1..25 : c % 2 = 1}, "#", "."),
             grid_of({1, 5, 7, 9, 13, 17, 19, 21, 25}, "#", "."),
             grid_of({2, 4, 6, 7, 8, 9, 10, 11, 12, 13, 14, 15, 17, 18, 19, 23},
                     "#", ".")}
    IN  {grid_of(M, "#", ".") : M \in SubsetsUpTo(1..25, MaxMarks)}
          \cup {grid_of(M, ".", "#") : M \in SubsetsUpTo(1..25, MaxMarks)}
          \cup {[g EXCEPT ![r][k] = IF @ = "#" THEN "." ELSE "#"] :
                   g \in SampleGrids, r \in 1..5, k \in 1..5}
          \cup SampleGrids

\* the rows as tokens: the cells of a row adjacent, or separated by single
\* spaces
row_tokens(grid, spacing) ==
    [r \in 1..5 |->
        IF spacing[r] THEN Join(<<" ">>, [c \in 1..5 |-> <<grid[r][c]>>]) ELSE grid[r]]

InitGrid ==
    /\ blocks_map = LoadedMap
    /\ arg \in Grids
    /\ \E spacing \in [1..5 -> BOOLEAN], tail \in {<<>>, <<Str["#...#"]>>} :
          df = <<Str["SHOW"]>> \o row_tokens(arg, spacing) \o tail
    /\ index = 0
    /\ consumed_indices = {}
    /\ parsed_commands = EmptyModel
    /\ pc = "call"
    /\ emitted = {}
    /\ spans = {}
    /\ ret = <<>>
    /\ WebInit

\* grid_str, consumed = parse_grid_from(df, 0, 1)
CallParseGrid ==
    /\ pc = "call"
    /\ ret' = parse_grid_from(df, 0, 1)
    /\ pc' = "parsed"
    /\ WebFrame
    /\ UNCHANGED <<blocks_map, df, index, consumed_indices, parsed_commands,
                   emitted, spans, arg>>

NextGrid == CallParseGrid

SpecGrid == InitGrid /\ [][NextGrid]_vars

(***************************************************************************)
(* normalize_pin_token on its own, applied once and then to its own result.*)
(***************************************************************************)
MaxPinLen == 3

PinAlphabet == {"P", "p", "O", "0", "1", "2", "U+0420", "U+041E", "U+0440", " "}

InitPin ==
    /\ blocks_map \in {FallbackMap, LoadedMap, SynonymMap}
    /\ arg \in SeqsUpTo(PinAlphabet, MaxPinLen)
    /\ df = <<>>
    /\ index = 0
    /\ consumed_indices = {}
    /\ parsed_commands = EmptyModel
    /\ pc = "call"
    /\ emitted = {}
    /\ spans = {}
    /\ ret = <<>>
    /\ WebInit

\* normalize_pin_token(arg)
NormalizeOnce ==
    /\ pc = "call"
    /\ ret' = <<normalize_pin_token(arg)>>
    /\ pc' = "once"
    /\ WebFrame
    /\ UNCHANGED <<blocks_map, df, index, consumed_indices, parsed_commands,
                   emitted, spans, arg>>

\* normalize_pin_token(normalize_pin_token(arg))
NormalizeTwice ==
    /\ pc = "once"
    /\ ret' = Append(ret, normalize_pin_token(ret[1]))
    /\ pc' = "twice"
    /\ WebFrame
    /\ UNCHANGED <<blocks_map, df, index, consumed_indices, parsed_commands,
                   emitted, spans, arg>>

NextPin == NormalizeOnce \/ NormalizeTwice

SpecPin == InitPin /\ [][NextPin]_vars

(***************************************************************************)
(* Several parse_commands / generate_code calls in one process: each call  *)
(* after the first starts when the one before it has returned its text.    *)
(***************************************************************************)
MaxCalls == 2

CallInputs ==
    {<<Str["ON"], Str["SHAKE"], Str["SHOW"], Str["HAPPY"]>>,
     <<Str["ON SHAKE"], Str["SHOW"], Str["SAD"]>>,
     <<Str["07"], Str["CHANNEL"], Str["SEND A"], Str["MESSAGE"], Str["HAPPY"]>>,
     <<Str["TURN ON"], Str["[P0]"], Str["TURN OFF"], Str["LED[PO]"]>>,
     <<Str["IF"], Str["PRESS BUTTON"], Str["A"], Str["THEN"], Str["SHOW"], Str["SAD"],
       Str["ELSE"], Str["SHOW"], Str["HAPPY"]>>,
     <<Str["IF"], Str["PRESS BUTTON"], Str["A"], Str["SHOW"], Str["SAD"]>>}

InitCalls ==
    /\ blocks_map \in {FallbackMap, LoadedMap}
    /\ df \in CallInputs
    /\ index = 0
    /\ consumed_indices = {}
    /\ parsed_commands = EmptyModel
    /\ pc = "scan"
    /\ emitted = {}
    /\ spans = {}
    /\ arg = <<>>
    /\ ret = <<>>
    /\ WebInit

\* new_model with the dict of the call before kept in place of lines 443-447
new_model_kept(previous) == previous

\* lines 443-447: the dict a call builds, whatever the call before it left
new_model(previous) == EmptyModel

\* line 452: the consumed set a call builds
new_consumed(previous) == {}

\* a further call of parse_commands, lines 431-452; arg keeps, for each
\* finished call, its tokens, the model it returned and the text generated
NewCall ==
    /\ pc = "generated"
    /\ Len(arg) < MaxCalls
    /\ arg' = Append(arg, [tokens |-> df, model |-> parsed_commands,
                           text |-> output_text(ret)])
    /\ df' \in CallInputs
    /\ index' = 0
    /\ parsed_commands' = new_model(parsed_commands)
    /\ consumed_indices' = new_consumed(consumed_indices)
    /\ pc' = "scan"
    /\ emitted' = {}
    /\ spans' = {}
    /\ ret' = <<>>
    /\ UNCHANGED blocks_map
    /\ WebFrame

NextCalls == Next \/ NewCall

SpecCalls == InitCalls /\ [][NextCalls]_vars

(***************************************************************************)
(* parse_commands followed by generate_code under every mapping that lacks *)
(* some of the templates.                                                  *)
(***************************************************************************)
\* token sequences whose model holds a channel, top-level actions of every
\* type, a conditional with and without ELSE, and handlers of every trigger,
\* with handlers discovered before and after the other nodes
GenInputs ==
    LET Tail1 ==
            <<Str["ON SHAKE"], Str["TURN ON"], Str["[P0]"], Str["IF"], Str["PRESS BUTTON"],
              Str["A"], Str["THEN"], Str["SHOW"], Str["SAD"], Str["ELSE"], Str["SHOW"],
              Str["HAPPY"]>>
        First == {<<>>, <<Str["ON"], Str["TILT"], Str["UP"], Str["SHOW"], Str["HAPPY"]>>,
                  <<Str["ON "] \o Str["HEAR LOUD SOUND"], Str["TURN OFF"], Str["LED[PO]"]>>}
        Channels == {<<>>, <<Str["07"], Str["CHANNEL"]>>, <<Str["??"], Str["CHANNEL"]>>}
        Actions ==
            {<<>>, <<Str["SEND A"], Str["MESSAGE"], Str["HAPPY"]>>,
             <<Str["SHOW"], Str["#...#"], Str["#...#"], Str["#...#"], Str["#...#"], Str["#...#"],
               Str["TURN OFF"], Str["[P0]"]>>,
             <<Str["SHOW"], Str["SAD"], Str["TURN ON"], Str["[p1]"]>>}
        Ifs == {<<>>, <<Str["IF"], Str["PRESS BUTTON"], Str["B"], Str["NOT"], Str["THEN"],
                        Str["SHOW"], Str["SAD"]>>,
                <<Str["IF"], Str["1"], Str["EQUAL TO"], Str["PO"], Str["THEN"], Str["TURN ON"],
                  Str["[P0]"], Str["ELSE"], Str["SHOW"], Str["HAPPY"]>>}
    IN  {<<Str["07"], Str["CHANNEL"], Str["SHOW"], Str["HAPPY"], Str["ON"]>> \o t
            \o <<Str["SHOW"], Str["SAD"]>> \o Tail1 : t \in SplitForms}
          \cup {f \o c \o a \o <<Str["ON"], Str["LOGO"], Str["DOWN"], Str["SHOW"], Str["SAD"]>> \o i :
                  f \in First, c \in Channels, a \in Actions, i \in Ifs}
          \cup {h \o <<Str["SHOW"]>> \o g \o e :
                  h \in {<<Str["ON SHAKE"]>>,
                          <<Str["IF"], Str["PRESS BUTTON"], Str["A"], Str["THEN"]>>,
                          <<Str["IF"], Str["PRESS BUTTON"], Str["A"], Str["THEN"], Str["SHOW"],
                            Str["SAD"], Str["ELSE"]>>},
                  g \in {<<Str["#...#"], Str["#...#"], Str["#...#"], Str["#...#"], Str["#...#"]>>,
                          <<Str["HAPPY"]>>},
                  e \in {<<>>, <<Str["TURN ON"], Str["[P0]"]>>}}

InitGen ==
    /\ blocks_map \in TemplateMaps
    /\ df \in GenInputs
    /\ index = 0
    /\ consumed_indices = {}
    /\ parsed_commands = EmptyModel
    /\ pc = "scan"
    /\ emitted = {}
    /\ spans = {}
    /\ arg = <<>>
    /\ ret = <<>>
    /\ WebInit

SpecGen == InitGen /\ [][Next]_vars

(***************************************************************************)
(* parse_grid_from and parse_show_common on the tokens after a SHOW: short *)
(* runs of rows, row fragments, glyphs, noise and names, and five rows     *)
(* written whole or in fragments with noise tokens between them.           *)
(***************************************************************************)
MaxShow == 4

ShowInputs ==
    LET Row1 == Str["#...#"]
        Row2 == <<".", "1", "O", "|", "-">>
        Row3 == <<"#", " ", ".", " ", "#", " ", ".", " ", "#">>
        Alphabet == {Row1, <<"#", ".">>, <<".", ".", "#">>, <<"+">>, Str["HAPPY"], <<"#">>,
                     <<"I", "G", "L", "U">>}
        Written == {<<Row1>>, <<<<"#", ".">>, <<".", ".", "#">>>>,
                    <<<<"#">>, <<".">>, <<".", ".">>, <<"#">>>>,
                    <<<<"#", ".">>, <<".">>, <<".">>, <<".">>, <<"#">>>>}
        Noise == {<<>>, <<<<"+">>>>, <<<<",">>, <<" ", "*">>>>}
        Tails == {<<>>, <<Str["HAPPY"]>>, <<Row1>>}
    IN  SeqsUpTo(Alphabet, MaxShow)
          \cup {n0 \o a \o n1 \o b \o n2 \o <<Row2, Row3>> \o c \o t :
                   a \in Written, b \in Written, c \in Written,
                   n0 \in Noise, n1 \in Noise, n2 \in Noise, t \in Tails}

InitShow ==
    /\ blocks_map = LoadedMap
    /\ df \in {<<Str["SHOW"]>> \o s : s \in ShowInputs}
    /\ index = 0
    /\ consumed_indices = {}
    /\ parsed_commands = EmptyModel
    /\ pc = "call"
    /\ emitted = {}
    /\ spans = {}
    /\ arg = <<>>
    /\ ret = <<>>
    /\ WebInit

\* kind, value, consumed_after_show = parse_show_common(df, 0, 1)
CallParseShow ==
    /\ pc = "parsed"
    /\ arg' = parse_show_common(df, 0, 1)
    /\ pc' = "shown"
    /\ WebFrame
    /\ UNCHANGED <<blocks_map, df, index, consumed_indices, parsed_commands,
                   emitted, spans, ret>>

NextShow == CallParseGrid \/ CallParseShow

SpecShow == InitShow /\ [][NextShow]_vars

(***************************************************************************)
(* parse_actions_from on its own, on a body of two complete actions with   *)
(* unrecognised tokens before, between and after them.                     *)
(***************************************************************************)
MaxNoise == 2

BodyInputs ==
    LET Complete ==
            {<<Str["SHOW"], Str["HAPPY"]>>, <<Str["SHOW"], <<"#">>, <<".">>, <<"#">>>>,
             <<Str["SHOW"], Str["#...#"], Str["#...#"], Str["#...#"], Str["#...#"], Str["#...#"]>>,
             <<Str["TURN ON"], Str["[P0]"]>>, <<Str["TURN OFF"], Str["??"], Str["LED[PO]"]>>,
             <<Str["SEND A MESSAGE"], Str["HAPPY"]>>, <<Str["PLAY SOUND"], Str["GIGGLE"]>>}
        Noise == SeqsUpTo({Str["??"], <<"I", "G", "L", "U">>}, MaxNoise)
    IN  {n0 \o a \o n1 \o b \o n2 :
            a \in Complete, b \in Complete, n0 \in Noise, n1 \in Noise, n2 \in Noise}

InitBody ==
    /\ blocks_map = LoadedMap
    /\ df \in BodyInputs
    /\ index = 0
    /\ consumed_indices = {}
    /\ parsed_commands = EmptyModel
    /\ pc = "call"
    /\ emitted = {}
    /\ spans = {}
    /\ arg = <<>>
    /\ ret = <<>>
    /\ WebInit

\* actions, consumed = parse_actions_from(df, 0, 0)
CallParseActions ==
    /\ pc = "call"
    /\ ret' = parse_actions_from(df, 0, 0)
    /\ pc' = "parsed"
    /\ WebFrame
    /\ UNCHANGED <<blocks_map, df, index, consumed_indices, parsed_commands,
                   emitted, spans, arg>>

NextBody == CallParseActions

SpecBody == InitBody /\ [][NextBody]_vars

(***************************************************************************)
(* parse_commands on short texts over the tokens that open a form, and on  *)
(* texts that end right after such a token.                                *)
(***************************************************************************)
MaxEnd == 3

EndInputs ==
    LET Openers == {Str["SHOW"], Str["TURN ON"], Str["SEND A MESSAGE"], Str["PLAY SOUND"],
                    Str["ON"], Str["IF"]}
        Heads == {<<>>, <<Str["ON SHAKE"]>>, <<Str["ON"], Str["SHAKE"]>>,
                  <<Str["IF"], Str["PRESS BUTTON"], <<"A">>, Str["THEN"]>>}
        Complete == {<<Str["SHOW"], Str["HAPPY"]>>,
                     <<Str["SHOW"], Str["#...#"], <<"+">>, Str["#...#"]>>,
                     <<Str["TURN OFF"], Str["??"], Str["LED[PO]"]>>,
                     <<Str["SEND A MESSAGE"], Str["HAPPY"]>>,
                     <<Str["PLAY SOUND"], Str["GIGGLE"]>>}
    IN  (SeqsUpTo(Openers \cup {Str["CHANNEL"], Str["SEND A"], Str["TURN OFF"],
                                Str["ON SHAKE"], Str["HAPPY"], Str["[P0]"]}, MaxEnd)
            \ {<<>>})
        \cup {<< <<>> >>, <<Str["SEND A"], Str["MESSAGE"]>>,
              <<Str["SEND A"], Str["MESSAGE"], Str["HAPPY"], Str["SHOW"]>>}
        \cup {h \o a \o <<e>> : h \in Heads, a \in Complete, e \in Openers}

InitEnd ==
    /\ blocks_map = LoadedMap
    /\ df \in EndInputs
    /\ index = 0
    /\ consumed_indices = {}
    /\ parsed_commands = EmptyModel
    /\ pc = "scan"
    /\ emitted = {}
    /\ spans = {}
    /\ arg = <<>>
    /\ ret = <<>>
    /\ WebInit

SpecEnd == InitEnd /\ [][Next]_vars

(***************************************************************************)
(* The web app (src/app.py): /process_image_path and /get_js_content of    *)
(* several browser sessions served by concurrent threads, and the          *)
(* vision_processor.py subprocess each upload starts.  All of them share   *)
(* the one file static/code_file.js.  The steps of a request are the       *)
(* actions; the steps of different requests interleave.  The session of    *)
(* Flask is a signed cookie: what a request stores in it reaches the       *)
(* browser with the response.                                              *)
(***************************************************************************)
MaxUploads == 2

\* the web app does not touch the state of a parse
ParserFrame ==
    UNCHANGED <<blocks_map, df, index, consumed_indices, parsed_commands, pc,
                emitted, spans, arg, ret>>

\* app.py lines 1415-1423: an accepted file; _write_placeholder_code
\* (lines 116-121) clears the generated code
UploadAccepted(s) ==
    /\ request[s].pc = "idle" /\ request[s].n < MaxUploads
    /\ code_file' = Placeholder
    /\ request' = [request EXCEPT ![s] = [pc |-> "cleared", n |-> @.n + 1]]
    /\ UNCHANGED <<session, reader, response>>
    /\ ParserFrame

\* app.py lines 1415-1416 and 1439-1440: no file part, or a file type that
\* is not allowed; nothing is written
UploadRejected(s) ==
    /\ request[s].pc = "idle"
    /\ UNCHANGED <<code_file, session, request, reader, response>>
    /\ ParserFrame

\* app.py lines 1424-1430 and 943-953: the image is saved, its path goes
\* into the session of the request, the subprocess is started
StartProcessor(s) ==
    /\ request[s].pc = "cleared"
    /\ request' = [request EXCEPT ![s].pc = "running"]
    /\ UNCHANGED <<code_file, session, reader, response>>
    /\ ParserFrame

\* vision_processor.py main, lines 946-948: an exception of OCR, parsing or
\* generation ends the subprocess with exit code 1 before any write
ProcessorFails(s) ==
    /\ request[s].pc = "running"
    /\ request' = [request EXCEPT ![s].pc = "failed"]
    /\ UNCHANGED <<code_file, session, reader, response>>
    /\ ParserFrame

\* save_code_to_file, lines 914-916: the existing file is removed
ProcessorRemoves(s) ==
    /\ request[s].pc = "running"
    /\ code_file' = Absent
    /\ request' = [request EXCEPT ![s].pc = "removed"]
    /\ UNCHANGED <<session, reader, response>>
    /\ ParserFrame

\* save_code_to_file, lines 918-919: the generated code is written
ProcessorWrites(s) ==
    /\ request[s].pc = "removed"
    /\ code_file' = Code(s, request[s].n)
    /\ request' = [request EXCEPT ![s].pc = "written"]
    /\ UNCHANGED <<session, reader, response>>
    /\ ParserFrame

\* app.py lines 1431-1438: the response, 500 or 200, carries the session
\* cookie with the path of this upload
UploadResponds(s) ==
    /\ request[s].pc \in {"failed", "written"}
    /\ session' = [session EXCEPT ![s] = request[s].n]
    /\ request' = [request EXCEPT ![s].pc = "idle"]
    /\ UNCHANGED <<code_file, reader, response>>
    /\ ParserFrame

\* app.py lines 1446-1452: 400 without an upload in the session, 404
\* without a file
GetChecks(s) ==
    /\ reader[s] = "idle"
    /\ IF session[s] = 0
       THEN response' = [response EXCEPT ![s] = Response(400, Absent)] /\ UNCHANGED reader
       ELSE IF code_file = Absent
       THEN response' = [response EXCEPT ![s] = Response(404, Absent)] /\ UNCHANGED reader
       ELSE reader' = [reader EXCEPT ![s] = "checked"] /\ UNCHANGED response
    /\ UNCHANGED <<code_file, session, request>>
    /\ ParserFrame

\* app.py lines 1453-1464: the file is read and returned; 500 when it has
\* been removed since the check
GetReads(s) ==
    /\ reader[s] = "checked"
    /\ response' = [response EXCEPT ![s] =
                       IF code_file = Absent THEN Response(500, Absent)
                       ELSE Response(200, code_file)]
    /\ reader' = [reader EXCEPT ![s] = "idle"]
    /\ UNCHANGED <<code_file, session, request>>
    /\ ParserFrame

InitWeb ==
    /\ blocks_map = LoadedMap
    /\ df = << <<>> >>
    /\ index = 0
    /\ consumed_indices = {}
    /\ parsed_commands = EmptyModel
    /\ pc = "scan"
    /\ emitted = {}
    /\ spans = {}
    /\ arg = <<>>
    /\ ret = <<>>
    /\ WebInit

NextWeb ==
    \E s \in Sessions :
        \/ UploadAccepted(s)
        \/ UploadRejected(s)
        \/ StartProcessor(s)
        \/ ProcessorFails(s)
        \/ ProcessorRemoves(s)
        \/ ProcessorWrites(s)
        \/ UploadResponds(s)
        \/ GetChecks(s)
        \/ GetReads(s)

SpecWeb == InitWeb /\ [][NextWeb]_vars

(***************************************************************************)
(* Claims about the consumed set of parse_commands.                        *)
(***************************************************************************)
HandlerSpans == {sp \in spans : sp.kind = "handler"}
ConditionalSpans == {sp \in spans : sp.kind = "conditional"}

\* C1: once an event handler has been appended, the top-level scan emits no
\* second node (top-level action, handler or conditional) from a token index
\* inside that handler's body span.
C1_BodyNotReinterpreted ==
    \A sp \in HandlerSpans : \A e \in emitted : e.idx \notin sp.body

\* C2: when handle_event appends a handler for the ON at index b whose
\* trigger takes start_offset tokens and whose body parse consumed c tokens,
\* every index b .. b+start_offset+c-1 is in the consumed set.
C2_TriggerAndBodyConsumed ==
    \A sp \in HandlerSpans :
        sp.base..(sp.base + sp.start + sp.count - 1) \subseteq consumed_indices

\* C3: after a well-formed IF has stored its conditional, every index of the
\* THEN body, the ELSE token, a THEN right after ELSE and the ELSE body is in
\* the consumed set, and the top-level scan emits no node from any of them.
C3_ConditionalSpanConsumed ==
    \A sp \in ConditionalSpans :
        /\ sp.body \subseteq consumed_indices
        /\ \A e \in emitted : e.idx \notin sp.body

\* a finished scan of an IF whose ELSE is followed by THEN and a SHOW body
C3_Witness ==
    /\ pc = "done"
    /\ \E sp \in ConditionalSpans : \E k \in sp.body :
          /\ At(df, k) = Str["ELSE"]
          /\ k - 1 \in sp.body
          /\ k + 2 \in sp.body
          /\ At(df, k + 1) = Str["THEN"]
          /\ At(df, k + 2) = Str["SHOW"]

\* C4: the tokens parse_actions_from reports as consumed (positions start ..
\* start+consumed-1) never include a token equal to ELSE, ON or IF.
C4_NoStopperConsumed ==
    \A sp \in HandlerSpans : \A k \in sp.body : At(df, k) \notin Stoppers

\* the trigger an ON token at the scan position matches
C5_Trigger == IF value = Str["ON"] THEN split_trigger(df, index) ELSE merged_trigger(value)

\* the scan is at an ON token with a recognised trigger whose body parses to
\* zero actions
C5_EmptyBodyOn ==
    /\ Dispatch
    /\ value = Str["ON"] \/ StartsWith(value, Str["ON "])
    /\ C5_Trigger.ok
    /\ parse_actions_from(df, index, C5_Trigger.start).actions = <<>>

\* C5: every event handler of the model has a non-empty action list, and the
\* step of an ON <trigger> whose body parses to zero actions leaves the model
\* and the consumed set unchanged.
C5_NoEmptyHandler ==
    /\ [](\A k \in DOMAIN parsed_commands.event_handlers :
             parsed_commands.event_handlers[k].actions # <<>>)
    /\ [][C5_EmptyBodyOn =>
            /\ parsed_commands' = parsed_commands
            /\ consumed_indices' = consumed_indices]_vars

\* the scan has passed an ON <trigger> with an empty body at index 0 and has
\* stored no handler
C5_Witness ==
    /\ index > 0
    /\ At(df, 0) = Str["ON"]
    /\ split_trigger(df, 0).ok
    /\ parse_actions_from(df, 0, split_trigger(df, 0).start).actions = <<>>
    /\ parsed_commands.event_handlers = <<>>
    /\ consumed_indices = {}

(***************************************************************************)
(* Claims about the grid sub-parser and the pin normalizer.                *)
(***************************************************************************)
\* C6: when the five rows of a 5x5 grid over {#,.} are given as five row
\* tokens after SHOW, cells adjacent or separated by single spaces,
\* parse_grid_from returns that grid as five newline-joined rows and reports
\* 5 tokens consumed.
C6_GridRoundTrip ==
    pc = "parsed" =>
        ret = [ok |-> TRUE,
               grid |-> arg[1] \o <<"\n">> \o arg[2] \o <<"\n">> \o arg[3]
                          \o <<"\n">> \o arg[4] \o <<"\n">> \o arg[5],
               consumed |-> 5]

\* a parsed grid whose first row token is spaced and whose second is not,
\* with a further row token after the fifth
C6_Witness ==
    /\ pc = "parsed"
    /\ ret.ok
    /\ ret.consumed = 5
    /\ Len(At(df, 1)) = 9
    /\ Len(At(df, 2)) = 5
    /\ NTokens(df) = 7
    /\ arg[1][1] = "#"
    /\ arg[1][2] = "."

\* the spellings of the pins: Latin P or Cyrillic Er, then the digit, or
\* Latin O or Cyrillic O for the zero of P0
C7_Pins ==
    [s \in {<<p, d>> : p \in {"P", "U+0420"}, d \in {"0", "1", "2", "O", "U+041E"}} |->
        <<"P", IF s[2] \in {"O", "U+041E"} THEN "0" ELSE s[2]>>]

\* Cyrillic Er and O replaced by Latin P and O
C7_Latin(s) ==
    [k \in DOMAIN s |->
        IF s[k] = "U+0420" THEN "P" ELSE IF s[k] = "U+041E" THEN "O" ELSE s[k]]

\* the parts of C7 about the pins and about idempotence
C7_PinsAndIdempotence ==
    /\ arg \in {Str["P0"], Str["P1"], Str["P2"]} => ret[1] = arg
    /\ arg \in DOMAIN C7_Pins => ret[1] = C7_Pins[arg]
    /\ SYNONYMS = NoTable => ret[2] = ret[1]

\* the token is no spelling of a pin and has no synonym
C7_OtherToken(u) == u \notin DOMAIN C7_Pins /\ u \notin DOMAIN SYNONYMS

\* C7 as stated: P0, P1 and P2 come back unchanged, PO and the Cyrillic
\* look-alike spellings of the pins come back as the pin, every other token
\* comes back stripped and uppercased, and with an empty synonym table
\* normalizing twice equals normalizing once.
C7_AsStated ==
    pc = "twice" =>
        /\ C7_PinsAndIdempotence
        /\ C7_OtherToken(Upper(Strip(arg))) => ret[1] = Upper(Strip(arg))

\* C7 amended: as C7, but a token that is no pin spelling and has no synonym
\* comes back stripped, uppercased and with every Cyrillic Er or O replaced
\* by Latin P or O.
C7_Normalized ==
    pc = "twice" =>
        /\ C7_PinsAndIdempotence
        /\ C7_OtherToken(Upper(Strip(arg))) => ret[1] = C7_Latin(Upper(Strip(arg)))

\* a token with white space, a small Cyrillic er and a small Latin p,
\* normalized twice with an empty synonym table
C7_Witness ==
    /\ pc = "twice"
    /\ SYNONYMS = NoTable
    /\ arg = <<" ", "U+0440", "p">>
    /\ ret = <<<<"P", "P">>, <<"P", "P">>>>

(***************************************************************************)
(* Claims about the event handlers and the conditional of parse_commands.  *)
(***************************************************************************)
\* the recognised triggers in split form, with the kind of their handler
C8_Triggers ==
    {[tokens |-> <<Str["SHAKE"]>>, type |-> "shake", button |-> None],
     [tokens |-> <<Str["HEAR"], Str["LOUD"], Str["SOUND"]>>, type |-> "sound_loud", button |-> None],
     [tokens |-> <<Str["HEAR"], Str["QUIET"], Str["SOUND"]>>, type |-> "sound_quiet", button |-> None],
     [tokens |-> <<Str["RADIO"], Str["RECEIVES"]>>, type |-> "radio_receives_message",
      button |-> None],
     [tokens |-> <<Str["PRESS"], Str["BUTTON"], Str["A"]>>, type |-> "button", button |-> Str["A"]],
     [tokens |-> <<Str["PRESS"], Str["BUTTON"], Str["B"]>>, type |-> "button", button |-> Str["B"]],
     [tokens |-> <<Str["PRESS"], Str["BUTTON"], Str["A"], Str["B"]>>, type |-> "button", button |-> Str["AB"]],
     [tokens |-> <<Str["PRESS"], Str["BUTTON"], Str["AB"]>>, type |-> "button", button |-> Str["AB"]],
     [tokens |-> <<Str["TILT"], Str["UP"]>>, type |-> "tilt_up", button |-> None],
     [tokens |-> <<Str["TILT"], Str["DOWN"]>>, type |-> "tilt_down", button |-> None],
     [tokens |-> <<Str["TILT"], Str["LEFT"]>>, type |-> "tilt_left", button |-> None],
     [tokens |-> <<Str["TILT"], Str["RIGHT"]>>, type |-> "tilt_right", button |-> None],
     [tokens |-> <<Str["LOGO"], Str["UP"]>>, type |-> "logo_up", button |-> None],
     [tokens |-> <<Str["LOGO"], Str["DOWN"]>>, type |-> "logo_down", button |-> None]}

\* C8: for every recognised trigger in split form followed by SHOW and an
\* icon name, parse_commands returns exactly one event handler, of the
\* trigger's kind, whose body is the one show-icon action for that icon.
C8_OneHandlerPerTrigger ==
    pc = "done" =>
        \A t \in C8_Triggers : \A icon \in {Str["HAPPY"], Str["SAD"]} :
            df = <<Str["ON"]>> \o t.tokens \o <<Str["SHOW"], icon>> =>
                parsed_commands.event_handlers =
                    <<[type |-> t.type, button |-> t.button,
                       actions |-> <<Str["basic.showIcon("] \o get_icon_code(icon) \o Str[")"]>>]>>

C9_ButtonPressed(b) == Str["input.buttonIsPressed(Button."] \o b \o Str[")"]

\* well-formed conditions with their JavaScript; pins tells whether the
\* condition names a pin of the mapping
C9_Conditions ==
    {[tokens |-> <<Str["PRESS BUTTON"], Str["A"]>>, js |-> C9_ButtonPressed(Str["A"]), pins |-> FALSE],
     [tokens |-> <<Str["PRESS BUTTON AB"], Str["NOT"]>>,
      js |-> Str["!("] \o C9_ButtonPressed(Str["AB"]) \o Str[")"], pins |-> FALSE],
     [tokens |-> <<Str["PRESS BUTTON"], Str["A"], Str["AND"], Str["PRESS BUTTON"], Str["B"], Str["NOT"]>>,
      js |-> C9_ButtonPressed(Str["A"]) \o <<" ", "&", "&", " ">>
               \o Str["!("] \o C9_ButtonPressed(Str["B"]) \o Str[")"],
      pins |-> FALSE],
     [tokens |-> <<Str["PRESS BUTTON"], Str["A"], Str["OR"], Str["PO"], Str["SMALLER THAN"], Str["1"]>>,
      js |-> C9_ButtonPressed(Str["A"]) \o <<" ", "|", "|", " ">>
               \o Str["pins.digitalReadPin(DigitalPin."] \o Str["P0"] \o Str[")"] \o <<" ", "<", " ", "1">>,
      pins |-> TRUE],
     [tokens |-> <<Str["1"], Str["EQUAL TO"], Str["PO"]>>,
      js |-> <<"1", " ", "=", "=", " ">> \o Str["pins.digitalReadPin(DigitalPin."] \o Str["P0"] \o Str[")"],
      pins |-> TRUE]}

\* the actions of a body parsed on its own
C9_Actions(body) == parse_actions_from(body, 0, 0).actions

C9_Example ==
    <<Str["IF"], Str["PRESS BUTTON"], Str["A"], Str["THEN"], Str["SHOW"], Str["SAD"],
      Str["ELSE"], Str["SHOW"], Str["HAPPY"]>>

\* C9: for IF <condition> THEN <then-actions> ELSE <else-actions> with a
\* well-formed condition, the model holds one conditional with that
\* condition, the actions between THEN and ELSE as its then list and the
\* actions after ELSE (after a THEN right behind ELSE, if any) as its else
\* list; the example yields button A pressed, show_icon(sad),
\* show_icon(happy).
C9_Conditional ==
    (pc = "done" /\ NTokens(df) > 0 /\ At(df, 0) = Str["IF"]) =>
        /\ \A c \in C9_Conditions : \A tb \in ShortBodies : \A eb \in ShortBodies :
             \A ot \in {<<>>, <<Str["THEN"]>>} :
               (/\ c.pins => Str["P0"] \in DOMAIN PINS
                /\ df = <<Str["IF"]>> \o c.tokens \o <<Str["THEN"]>> \o tb \o <<Str["ELSE"]>> \o ot \o eb)
               => parsed_commands.conditional =
                    <<[condition_js |-> c.js,
                       then_actions |-> C9_Actions(tb),
                       else_actions |-> C9_Actions(eb)]>>
        /\ (df = C9_Example /\ blocks_map = LoadedMap) =>
              parsed_commands.conditional =
                 <<[condition_js |-> C9_ButtonPressed(Str["A"]),
                    then_actions |-> <<Str["basic.showIcon("] \o Str["IconNames.Sad"] \o Str[")"]>>,
                    else_actions |-> <<Str["basic.showIcon("] \o Str["IconNames.Happy"] \o Str[")"]>>]>>

\* the finished parse of an IF with a NOT condition, a THEN behind ELSE and
\* two non-empty bodies
C9_Witness ==
    /\ pc = "done"
    /\ blocks_map = LoadedMap
    /\ df = <<Str["IF"], Str["PRESS BUTTON AB"], Str["NOT"], Str["THEN"], Str["SHOW"], Str["SAD"],
              Str["ELSE"], Str["THEN"], Str["TURN OFF"], Str["??"], Str["LED[PO]"]>>
    /\ parsed_commands.conditional # <<>>
    /\ Len(parsed_commands.conditional[1].then_actions) = 1
    /\ Len(parsed_commands.conditional[1].else_actions) = 1

C10_SkipNot(d, p) == IF token(d, p) = Str["NOT"] THEN p + 1 ELSE p

C10_NoThen(d, p) == token(d, p) # Str["THEN"]

\* c2 is the condition after AND/OR at position p + 1
C10_SecondFails(d, p, c2) ==
    ~c2.ok \/ C10_NoThen(d, C10_SkipNot(d, p + 1 + c2.consumed))

\* p is the position after the first condition and its NOT
C10_AfterFirst(d, p) ==
    IF token(d, p) \in {Str["AND"], Str["OR"]}
    THEN C10_SecondFails(d, p, parse_single_condition(d, p + 1))
    ELSE C10_NoThen(d, p)

\* c1 is the condition at position i + 1
C10_Abandons(d, i, c1) ==
    ~c1.ok \/ C10_AfterFirst(d, C10_SkipNot(d, i + 1 + c1.consumed))

\* the scan is at an IF whose first condition is unrecognised, whose
\* condition after AND/OR is unrecognised, or whose THEN is missing
C10_AbandonedIf ==
    /\ Dispatch
    /\ value = Str["IF"]
    /\ C10_Abandons(df, index, parse_single_condition(df, index + 1))

\* C10: the step of an abandoned IF writes no state: the model, with any
\* conditional of an earlier IF, and the consumed set stay as they are and
\* the scan goes on at the next token.
C10_AbandonedIfWritesNothing ==
    [][C10_AbandonedIf =>
          /\ parsed_commands' = parsed_commands
          /\ consumed_indices' = consumed_indices
          /\ index' = index + 1]_vars

\* IF, PRESS BUTTON, A, SHOW, SAD: no conditional, nothing consumed, and
\* the SHOW after the abandoned IF read as a top-level action
C10_Witness ==
    /\ pc = "done"
    /\ df = <<Str["IF"], Str["PRESS BUTTON"], Str["A"], Str["SHOW"], Str["SAD"]>>
    /\ parsed_commands.conditional = <<>>
    /\ consumed_indices = {}
    /\ emitted = {[idx |-> 3, kind |-> "action"]}
(***************************************************************************)
(* Claims about pin writes, the stored conditional and the triggers.       *)
(***************************************************************************)
\* the offsets 1..5 after position p whose token holds a bracketed
\* reference that normalizes to a pin of the mapping table
C11_Refs(d, p) ==
    {j \in 1..5 :
        /\ p + j < NTokens(d)
        /\ bracket_match(At(d, p + j)).ok
        /\ normalize_pin_token(bracket_match(At(d, p + j)).group) \in DOMAIN PINS}

\* the pin of the nearest such token
C11_Pin(d, p) == normalize_pin_token(bracket_match(At(d, p + MinOf(C11_Refs(d, p)))).group)

C11_Turn == (Str["TURN ON"] :> "1") @@ (Str["TURN OFF"] :> "0")

RECURSIVE C11_Body(_, _)
\* the actions of a body of pin writes from position p on, read as C11 says:
\* a TURN ON/OFF with a pin in its next 5 tokens writes that pin and consumes
\* through the token of the bracket, every other token is passed over
C11_Body(d, p) ==
    IF p >= NTokens(d) THEN <<>>
    ELSE IF At(d, p) \in DOMAIN C11_Turn /\ C11_Refs(d, p) # {}
    THEN <<render_pin_write(C11_Pin(d, p), C11_Turn[At(d, p)])>>
            \o C11_Body(d, p + MinOf(C11_Refs(d, p)) + 1)
    ELSE C11_Body(d, p + 1)

\* C11: TURN ON (TURN OFF) yields a turn_on_pin (turn_off_pin) action exactly
\* when one of the next at most 5 tokens holds a bracketed reference that
\* normalizes to a pin of the mapping table, the action carries that pin,
\* and in a body the pin write consumes TURN ON/OFF and every token through
\* the one with the bracket.
C11_PinWriteWhenPinAhead ==
    (pc = "done" /\ df \in PinInputs) =>
        /\ At(df, 0) \in DOMAIN C11_Turn =>
             parsed_commands.actions =
                IF C11_Refs(df, 0) = {} THEN <<>>
                ELSE <<Action(IF At(df, 0) = Str["TURN ON"] THEN "turn_on_pin"
                              ELSE "turn_off_pin",
                              C11_Pin(df, 0))>>
        /\ At(df, 0) = Str["ON SHAKE"] =>
             parsed_commands.event_handlers =
                IF C11_Body(df, 1) = <<>> THEN <<>>
                ELSE <<[type |-> "shake", button |-> None, actions |-> C11_Body(df, 1)]>>

\* the positions of the IF tokens of d that open a well-formed IF block: a
\* recognised condition (or two joined by AND/OR) followed by THEN
C12_WellFormed(d) ==
    {i \in 0..(NTokens(d) - 1) : At(d, i) = Str["IF"] /\ if_header(d, i).ok}

\* the conditional built from the IF block at position i
C12_Built(d, i) ==
    [condition_js |-> if_header(d, i).condition_js,
     then_actions |-> if_bodies(d, i, if_header(d, i).pos).then_actions,
     else_actions |-> if_bodies(d, i, if_header(d, i).pos).else_actions]

\* C12: the returned model holds at most one conditional, the one built from
\* the last well-formed IF of the token sequence; an IF that is not well
\* formed neither removes nor changes it.
C12_LastWellFormedIfStored ==
    pc = "done" =>
        parsed_commands.conditional =
            IF C12_WellFormed(df) = {} THEN <<>>
            ELSE <<C12_Built(df, MaxOf(C12_WellFormed(df)))>>

\* the event handlers of the split form ON, <tokens...>, <body...>
C14_Split(d) ==
    IF split_trigger(d, 0).ok
    THEN handle_event(EmptyModel, {}, d, 0, split_trigger(d, 0).start,
                      split_trigger(d, 0).handler).parsed_commands.event_handlers
    ELSE <<>>

\* C14: for every recognised trigger and every body, the merged token
\* "ON <phrase>" followed by the body yields the same event handlers (kind
\* and action list) as ON, <phrase tokens...> followed by the same body.
C14_MergedEqualsSplit ==
    pc = "done" =>
        \A t \in C8_Triggers : \A body \in ShortBodies :
            (/\ t.tokens # <<Str["PRESS"], Str["BUTTON"], Str["A"], Str["B"]>>
             /\ df = <<Str["ON "] \o Join(<<" ">>, t.tokens)>> \o body)
            => parsed_commands.event_handlers = C14_Split(<<Str["ON"]>> \o t.tokens \o body)

\* the spellings of the press-button trigger for both buttons
C15_Forms ==
    {<<Str["PRESS"], Str["BUTTON"], Str["A"], Str["B"]>>,
     <<Str["PRESS BUTTON"], Str["A"], Str["B"]>>,
     <<Str["PRESS"], Str["BUTTON"], Str["AB"]>>,
     <<Str["PRESS BUTTON"], Str["AB"]>>}

\* the bodies of ShortBodies that hold at least one action
C15_Bodies ==
    {<<Str["SHOW"], Str["HAPPY"]>>, <<Str["SHOW"], Str["SAD"]>>,
     <<Str["TURN OFF"], Str["??"], Str["LED[PO]"]>>}

\* C15: ON followed by a press-button trigger for both buttons (A, B as two
\* tokens or the single token AB, after PRESS, BUTTON or after PRESS BUTTON)
\* and a non-empty body yields a handler whose button is AB.
C15_BothButtonsHandler ==
    pc = "done" =>
        \A f \in C15_Forms : \A body \in C15_Bodies :
            df = <<Str["ON"]>> \o f \o body =>
                /\ Len(parsed_commands.event_handlers) = 1
                /\ parsed_commands.event_handlers[1].type = "button"
                /\ parsed_commands.event_handlers[1].button = Str["AB"]

\* a condition negated by the NOT token n behind it, or left as it is
C16_Negated(n, js) == IF n = <<Str["NOT"]>> THEN Str["!("] \o js \o Str[")"] ELSE js

\* the JavaScript operator of a connector token
C16_Operator(k) == IF k = Str["AND"] THEN <<" ", "&", "&", " ">> ELSE <<" ", "|", "|", " ">>

\* second conditions with their JavaScript
C16_Seconds ==
    {[tokens |-> <<Str["PRESS BUTTON"], Str["B"]>>, js |-> C9_ButtonPressed(Str["B"])],
     [tokens |-> <<Str["PO"], Str["SMALLER THAN"], Str["1"]>>,
      js |-> Str["pins.digitalReadPin(DigitalPin."] \o Str["P0"] \o Str[")"] \o <<" ", "<", " ", "1">>]}

C17_Number(s) ==
    /\ s # <<>>
    /\ \A k \in DOMAIN s : s[k] \in {"0", "1", "2", "3", "4", "5", "6", "7", "8", "9", "U+0663"}

\* a token that normalize_pin_token turns into P0, P1 or P2
C17_Pin(s) == normalize_pin_token(s) \in {Str["P0"], Str["P1"], Str["P2"]}

\* the operator of a comparator token; <<>> for any other token
C17_Op(s) ==
    IF s = Str["EQUAL TO"] THEN <<"=", "=">>
    ELSE IF s = Str["SMALLER THAN"] THEN <<"<">>
    ELSE IF s = Str["GREATER THAN"] THEN <<">">>
    ELSE <<>>

C17_Read(s) == Str["pins.digitalReadPin(DigitalPin."] \o normalize_pin_token(s) \o Str[")"]

\* the expression of a triple of tokens; <<>> when it is not a condition
C17_Expression(h) ==
    IF C17_Op(h[2]) = <<>> THEN <<>>
    ELSE IF C17_Number(h[1]) /\ C17_Pin(h[3])
    THEN h[1] \o <<" ">> \o C17_Op(h[2]) \o <<" ">> \o C17_Read(h[3])
    ELSE IF C17_Pin(h[1]) /\ C17_Number(h[3])
    THEN C17_Read(h[1]) \o <<" ">> \o C17_Op(h[2]) \o <<" ">> \o h[3]
    ELSE <<>>

\* C17: in IF t0 t1 t2 THEN ..., '<number> CMP <pin>' gives
\* 'number op read(pin)' and '<pin> CMP <number>' gives 'read(pin) op number'
\* with ==, <, > for EQUAL TO, SMALLER THAN, GREATER THAN, the pin normalized
\* and one of P0, P1, P2, the number made of decimal digits; any other
\* triple is not a condition and no conditional is stored.
C17_ComparisonCondition ==
    (pc = "done" /\ NTokens(df) >= 5 /\ At(df, 0) = Str["IF"] /\ At(df, 4) = Str["THEN"]
       /\ At(df, 1) \notin {Str["PRESS BUTTON"], Str["PRESS BUTTON AB"]}
       /\ \A k \in 5..(NTokens(df) - 1) : At(df, k) # Str["IF"])
    => IF C17_Expression(SubSeq(df, 2, 4)) = <<>>
       THEN parsed_commands.conditional = <<>>
       ELSE /\ parsed_commands.conditional # <<>>
            /\ parsed_commands.conditional[1].condition_js = C17_Expression(SubSeq(df, 2, 4))

C18_Rank(kind) ==
    IF kind = "channel" THEN 1 ELSE IF kind = "action" THEN 2
    ELSE IF kind = "conditional" THEN 3 ELSE 4

\* the texts of the segments of one class, in output order
C18_Texts(kind) ==
    [k \in DOMAIN SelectSeq(ret, LAMBDA p : p.kind = kind) |->
        SelectSeq(ret, LAMBDA p : p.kind = kind)[k].text]

\* the positions of the ON tokens that gave a handler
C18_Bases == {s.base : s \in {x \in spans : x.kind = "handler"}}

\* the k-th of them in token order
C18_Base(k) == CHOOSE b \in C18_Bases : Cardinality({x \in C18_Bases : x < b}) = k - 1

\* the trigger of the ON token at position b
C18_Trigger(b) ==
    IF At(df, b) = Str["ON"] THEN split_trigger(df, b) ELSE merged_trigger(At(df, b))

\* the handler of the ON token at position b, parsed on its own
C18_HandlerAt(b) ==
    handle_event(EmptyModel, {}, df, b, C18_Trigger(b).start,
                 C18_Trigger(b).handler).parsed_commands.event_handlers[1]

\* C18: in the segments generate_code returns no segment of a later class
\* precedes one of an earlier class (channel, top-level actions, conditional,
\* event handlers), the action segments follow the order of the model's
\* actions, and the handler segments follow the order in which their ON
\* tokens stand in the token sequence.
C18_SegmentOrder ==
    pc = "generated" =>
        /\ \A i \in DOMAIN ret : \A j \in DOMAIN ret :
              i < j => C18_Rank(ret[i].kind) <= C18_Rank(ret[j].kind)
        /\ Len(C18_Texts("channel")) <= 1 /\ Len(C18_Texts("conditional")) <= 1
        /\ C18_Texts("action") =
              [k \in DOMAIN parsed_commands.actions |-> action_text(parsed_commands.actions[k])]
        /\ Len(C18_Texts("handler")) = Cardinality(C18_Bases)
        /\ \A k \in DOMAIN C18_Texts("handler") :
              C18_Texts("handler")[k] = handler_text(C18_HandlerAt(C18_Base(k)))

\* a channel, a conditional and two handlers, one of them found before a
\* top-level action and before the conditional
C18_Witness ==
    /\ pc = "generated"
    /\ Len(C18_Texts("channel")) = 1 /\ Len(C18_Texts("conditional")) = 1
    /\ Len(C18_Texts("action")) >= 1 /\ Len(C18_Texts("handler")) >= 2
    /\ \E b \in C18_Bases :
          /\ \E e \in emitted : e.kind = "action" /\ b < e.idx
          /\ \E s \in spans : s.kind = "conditional" /\ b < s.base

\* the number of segments of one class
C19_Count(kind) == Len(SelectSeq(ret, LAMBDA p : p.kind = kind))

\* C19: whichever of the templates (events, grid, if, ifElse, pin write,
\* radio) the mapping lacks, every top-level action, the conditional and
\* every event handler of the model gives exactly one segment, and a handler
\* of each button, A, B and AB, has a segment to give.
C19_OneSegmentPerNode ==
    /\ pc = "generated" =>
          /\ C19_Count("action") = Len(parsed_commands.actions)
          /\ C19_Count("conditional") = Len(parsed_commands.conditional)
          /\ C19_Count("handler") = Len(parsed_commands.event_handlers)
          /\ Len(ret) = C19_Count("channel") + C19_Count("action")
                          + C19_Count("conditional") + C19_Count("handler")
    /\ \A b \in {Str["A"], Str["B"], Str["AB"]} :
          handler_text([type |-> "button", button |-> b,
                        actions |-> <<Str["basic.showIcon("] \o Str["IconNames.Sad"] \o Str[")"]>>])
             # None

\* a shake handler, a conditional and a pin write rendered by a mapping
\* that has none of the templates
C19_Witness ==
    /\ pc = "generated"
    /\ blocks_map = TemplateMap({"events", "grid", "if", "ifElse", "pinWrite", "radio"})
    /\ \E k \in DOMAIN parsed_commands.event_handlers :
          /\ parsed_commands.event_handlers[k].type = "shake"
          /\ parsed_commands.event_handlers[k].actions
               = <<Str["pins.digitalWritePin(DigitalPin."] \o Str["P0"] \o <<",", " ", "1", ")">> >>
    /\ parsed_commands.conditional # <<>>
    /\ C19_Count("handler") >= 2 /\ C19_Count("action") >= 1 /\ C19_Count("conditional") = 1

\* C20: with the table used when the mapping file cannot be loaded, TURN ON
\* followed by a token holding [P0] is still recognised as a pin write and
\* rendered by the hardcoded form.
C20_FallbackPinWrite ==
    (pc = "generated" /\ blocks_map = FallbackMap /\ df = <<Str["TURN ON"], Str["[P0]"]>>)
    => /\ parsed_commands.actions = <<Action("turn_on_pin", Str["P0"])>>
       /\ output_text(ret) = Str["pins.digitalWritePin(DigitalPin."] \o Str["P0"]
                               \o <<",", " ", "1", ")">>

(***************************************************************************)
(* Claims about the grid sub-parser and the bodies.                        *)
(***************************************************************************)
\* a string of exactly 5 lines of exactly 5 characters, each # or .
C21_IsGrid(g) ==
    /\ Len(SplitLines(g)) = 5
    /\ \A r \in 1..5 :
          /\ Len(SplitLines(g)[r]) = 5
          /\ \A k \in 1..5 : SplitLines(g)[r][k] \in {"#", "."}

C21_Witness ==
    /\ pc = "shown" /\ ret.ok /\ arg.kind = "grid"
    /\ Len(grid_row_loop(df, 1, 0, <<>>, 0).rows) = 5
    /\ NTokens(df) > 6

\* the noise tokens written between rows, and their number
C22_Noise == {<<>>, <<<<"+">>>>, <<<<",">>, <<" ", "*">>>>}

\* C22: five valid row tokens with standalone noise tokens between them are
\* recognised by the row strategy as that 5-row grid, and the consumed count
\* is the five rows plus the noise tokens.
C22_NoiseBetweenRows ==
    pc = "parsed" =>
        \A n0 \in C22_Noise : \A n1 \in C22_Noise : \A n2 \in C22_Noise :
            df = <<Str["SHOW"]>> \o n0 \o <<Str["#...#"]>> \o n1 \o <<Str["#...#"]>> \o n2
                   \o <<<<".", "1", "O", "|", "-">>,
                        <<"#", " ", ".", " ", "#", " ", ".", " ", "#">>, Str["#...#"]>>
            => /\ Len(grid_row_loop(df, 1, 0, <<>>, 0).rows) = 5
               /\ ret.ok
               /\ ret.grid = Join(<<"\n">>, <<Str["#...#"], Str["#...#"], <<".", "#", ".", "#", ".">>,
                                            <<"#", ".", "#", ".", "#">>, Str["#...#"]>>)
               /\ ret.consumed = 5 + Len(n0) + Len(n1) + Len(n2)

\* the tokens counted as consumed by the flat strategy, in order
C23_Counted == [k \in 1..ret.consumed |-> At(df, k)]

\* the cells a token gives when all of its characters normalize: none for a
\* standalone noise token, one for a single glyph, one per character
\* otherwise; <<>> too when some character does not normalize
C23_Cells(tok) ==
    IF Strip(tok) \in GRID_NOISE_TOKENS THEN <<>>
    ELSE IF normalize_grid_char(tok) # NoCell THEN <<normalize_grid_char(tok)>>
    ELSE IF \A k \in DOMAIN tok : normalize_grid_char(<<tok[k]>>) # NoCell
    THEN [k \in DOMAIN tok |-> normalize_grid_char(<<tok[k]>>)]
    ELSE <<>>

RECURSIVE C23_AllCells(_)
C23_AllCells(toks) ==
    IF toks = <<>> THEN <<>> ELSE C23_Cells(Head(toks)) \o C23_AllCells(Tail(toks))

\* the first 25 of the cells, padded with unlit cells and cut into rows
C23_GridOf(cells) ==
    Join(<<"\n">>,
         [r \in 1..5 |->
             [k \in 1..5 |->
                 IF 5 * (r - 1) + k <= Len(cells) THEN cells[5 * (r - 1) + k] ELSE "."]])

\* C23: when the flat strategy produces the grid, its cells come only from
\* the tokens counted as consumed, a token with a character that does not
\* normalize gives no cell, and SHOW followed by a token that is not made of
\* grid glyphs gives no grid: the token is taken as an icon name.
C23_FlatCellsFromConsumed ==
    /\ (pc \in {"parsed", "shown"} /\ ret.ok /\ Len(grid_row_loop(df, 1, 0, <<>>, 0).rows) < 5)
          => ret.grid = C23_GridOf(C23_AllCells(C23_Counted))
    /\ (pc = "shown" /\ NTokens(df) > 1 /\ C23_Cells(At(df, 1)) = <<>>
          /\ Strip(At(df, 1)) \notin GRID_NOISE_TOKENS
          /\ ~normalize_grid_row(At(df, 1)).ok /\ ~merge_rows(df, 1, At(df, 1), 0).ok)
          => /\ ~ret.ok
             /\ arg.kind = "icon" /\ arg.value = get_icon_code(At(df, 1))

\* the shortest run of 1 + k tokens from position p, k in 1..3, whose
\* concatenation normalizes to a row; 0 when there is none
C24_Merged(p) ==
    IF p + 1 < NTokens(df) /\ normalize_grid_row(At(df, p) \o At(df, p + 1)).ok THEN 1
    ELSE IF p + 2 < NTokens(df)
            /\ normalize_grid_row(At(df, p) \o At(df, p + 1) \o At(df, p + 2)).ok THEN 2
    ELSE IF p + 3 < NTokens(df)
            /\ normalize_grid_row(At(df, p) \o At(df, p + 1) \o At(df, p + 2)
                                     \o At(df, p + 3)).ok THEN 3
    ELSE 0

\* the concatenation of the tokens p .. p + k
C24_Concat(p, k) ==
    IF k = 1 THEN At(df, p) \o At(df, p + 1)
    ELSE IF k = 2 THEN At(df, p) \o At(df, p + 1) \o At(df, p + 2)
    ELSE At(df, p) \o At(df, p + 1) \o At(df, p + 2) \o At(df, p + 3)

\* C24: in the row strategy, a first token that does not normalize alone
\* but does when joined with the next 1, 2 or 3 tokens is accepted as one
\* row from the shortest such join, and k merged tokens add k + 1 to the
\* consumed count; when no join of up to 3 following tokens normalizes, the
\* row strategy stops with no row and nothing counted.
C24_RowMerge ==
    (pc = "parsed" /\ NTokens(df) > 1 /\ Strip(At(df, 1)) \notin GRID_NOISE_TOKENS
       /\ ~normalize_grid_row(At(df, 1)).ok)
    => IF C24_Merged(1) > 0
       THEN /\ row_at(df, 1).ok
            /\ row_at(df, 1).row = normalize_grid_row(C24_Concat(1, C24_Merged(1))).row
            /\ row_at(df, 1).advance = C24_Merged(1) + 1
            /\ grid_row_loop(df, 1, 0, <<>>, 0).rows # <<>>
            /\ grid_row_loop(df, 1, 0, <<>>, 0).rows[1] = row_at(df, 1).row
            /\ Len(grid_row_loop(df, 1, 0, <<>>, 0).rows) = 1
                  => grid_row_loop(df, 1, 0, <<>>, 0).consumed >= C24_Merged(1) + 1
       ELSE /\ ~row_at(df, 1).ok
            /\ grid_row_loop(df, 1, 0, <<>>, 0) = [rows |-> <<>>, consumed |-> 0]

\* five rows found by the row strategy, the first from a token joined with
\* the three that follow it, the second from a token joined with the next
C24_Witness ==
    /\ pc = "parsed" /\ ret.ok
    /\ C24_Merged(1) = 3
    /\ NTokens(df) > 6 /\ ~normalize_grid_row(At(df, 5)).ok /\ C24_Merged(5) = 1
    /\ Len(grid_row_loop(df, 1, 0, <<>>, 0).rows) = 5
    /\ ret.consumed = NTokens(df) - 1

\* the tokens of df that match no action form, are no stopper, no grid
\* glyph and no grid noise token
C25_Inserted == {Str["??"], <<"I", "G", "L", "U">>}

\* df without the inserted tokens
C25_Clean == SelectSeq(df, LAMBDA tok : tok \notin C25_Inserted)

\* C25: in a body of complete actions, tokens that match no action form and
\* are no stopper, grid glyph or grid noise token, inserted before, between
\* or after the actions, leave the returned actions as they are without
\* them and add exactly one per inserted token to the consumed count.
C25_NoiseTolerantBody ==
    pc = "parsed" =>
        /\ ret.actions = parse_actions_from(C25_Clean, 0, 0).actions
        /\ ret.consumed = parse_actions_from(C25_Clean, 0, 0).consumed
                            + (NTokens(df) - NTokens(C25_Clean))

\* one round of the loop of parse_actions_from at offset i from base_index
\* either stops on a stopper or advances by at least one token and stays
\* within the tokens
C26_RoundAdvances(base_index, i) ==
    At(df, base_index + i) \notin Stoppers =>
        action_step(df, base_index, i).advance \in 1..(NTokens(df) - (base_index + i))

\* the consumed count is between 0 and the number of tokens from the start
C26_ConsumedInRange(base_index, i) ==
    parse_actions_from(df, base_index, i).consumed \in 0..(NTokens(df) - (base_index + i))

C26_BodyProgress ==
    \A base_index \in {0, index} : \A i \in 0..(NTokens(df) - base_index) :
        /\ base_index + i < NTokens(df) => C26_RoundAdvances(base_index, i)
        /\ C26_ConsumedInRange(base_index, i)

\* the scan is at a token or just past the last one
C26_ScanInRange == pc = "scan" => index \in 0..NTokens(df)

\* a step of the scan loop moves to the next token or leaves the loop
C26_ScanAdvances == pc = "scan" => (index' = index + 1 \/ pc' # "scan")

\* C26: every round of the loop of parse_actions_from that does not stop
\* advances by at least one token, the consumed count lies between 0 and the
\* number of remaining tokens, and every step of the scan of parse_commands
\* moves forward one token, never past the last one, or ends the scan, so
\* the scan ends after as many steps as there are tokens.
C26_ProgressAndTermination ==
    /\ [](C26_BodyProgress /\ C26_ScanInRange)
    /\ [][C26_ScanAdvances]_vars

\* parse_commands has returned on a text that ends right after a token that
\* opens a form, with a handler body that consumed tokens before it
C26_Witness ==
    /\ pc = "done"
    /\ At(df, NTokens(df) - 1) \in {Str["SHOW"], Str["TURN ON"], Str["SEND A MESSAGE"],
                                     Str["PLAY SOUND"], Str["ON"], Str["IF"]}
    /\ parsed_commands.event_handlers # <<>>
    /\ consumed_indices # {}

\* parse_commands has returned on the empty text
C26_WitnessEmpty == pc = "done" /\ df = << <<>> >> /\ parsed_commands = EmptyModel

\* the fixed margin of a body
C27_Margin == Str["    "]

\* every non-empty line of the action stands in the generated text behind
\* the margin
C27_Indented(action) ==
    \A k \in DOMAIN SplitLines(action) :
        SplitLines(action)[k] # <<>> =>
            \E n \in DOMAIN SplitLines(output_text(ret)) :
                SplitLines(output_text(ret))[n] = C27_Margin \o SplitLines(action)[k]

C27_AllIndented(actions) == \A k \in DOMAIN actions : C27_Indented(actions[k])

\* the handler bodies alone
C27_HandlerBodiesIndented ==
    pc = "generated" =>
        \A h \in DOMAIN parsed_commands.event_handlers :
            C27_AllIndented(parsed_commands.event_handlers[h].actions)

\* C27: in the generated text every non-empty line of every action of a
\* body, of an event handler and of the then and else bodies of the
\* conditional alike, stands behind the same margin of 4 spaces, the inner
\* lines of a grid literal and the first line of the body included.
C27_UniformIndent ==
    pc = "generated" =>
        /\ \A h \in DOMAIN parsed_commands.event_handlers :
              C27_AllIndented(parsed_commands.event_handlers[h].actions)
        /\ \A c \in DOMAIN parsed_commands.conditional :
              /\ C27_AllIndented(parsed_commands.conditional[c].then_actions)
              /\ C27_AllIndented(parsed_commands.conditional[c].else_actions)

\* the top-level action and the body action are the same action: the body
\* holds the statement of what the top-level action holds
C28_SameAction(action, text) ==
    IF action.type = "show_icon" THEN text = Str["basic.showIcon("] \o action.value \o Str[")"]
    ELSE IF action.type = "show_grid" THEN text = render_grid(action.value)
    ELSE IF action.type = "turn_on_pin" THEN text = render_pin_write(action.value, "1")
    ELSE IF action.type = "turn_off_pin" THEN text = render_pin_write(action.value, "0")
    ELSE IF action.type = "send_message"
    THEN text = JS_sendString \o action.value \o JS_quoteClose
    ELSE FALSE

C28_SameActions(top, body) ==
    /\ Len(top) = Len(body)
    /\ \A k \in DOMAIN top : C28_SameAction(top[k], body[k])

\* C28: a sequence of complete actions that parse_actions_from turns into a
\* list of actions yields at top level, outside any body, the same actions
\* in the same order in the top-level action list of the model.
C28_TopLevelAsBody ==
    (pc = "done" /\ df \in CompleteInputs) =>
        C28_SameActions(parsed_commands.actions, parse_actions_from(df, 0, 0).actions)

\* the same without the forms SEND A MESSAGE and PLAY SOUND
C28_TopLevelAsBodyDisplayAndPins ==
    (/\ pc = "done" /\ df \in CompleteInputs
     /\ \A k \in DOMAIN df : df[k] \notin {Str["SEND A MESSAGE"], Str["PLAY SOUND"]}) =>
        C28_SameActions(parsed_commands.actions, parse_actions_from(df, 0, 0).actions)

\* the text is SHOW followed by an icon name present in the mapping
C29_ShowMappedIcon ==
    /\ NTokens(df) = 2 /\ At(df, 0) = Str["SHOW"]
    /\ Upper(Strip(At(df, 1))) \in DOMAIN ICONS
    /\ parse_show_common(df, 0, 1).kind = "icon"

\* C29: a top-level SHOW N with N in the mapping table is generated as the
\* show-icon line that carries the icon code of N in the mapping, the line
\* that SHOW N gives inside a body.
C29_TopLevelIconCode ==
    (pc = "generated" /\ C29_ShowMappedIcon) =>
        /\ output_text(ret) = Str["basic.showIcon("] \o ICONS[Upper(Strip(At(df, 1)))] \o Str[")"]
        /\ <<output_text(ret)>> = parse_actions_from(df, 0, 0).actions

\* /get_js_content of session s completes in this step
C30_Served(s) ==
    \/ reader[s] = "checked" /\ reader'[s] = "idle"
    \/ reader[s] = "idle" /\ reader'[s] = "idle" /\ response'[s] # response[s]

\* the uploads of session s that are its most recent: the one its cookie
\* names and the one of its request in flight
C30_Recent(s) == {session[s]} \cup {request[s].n : t \in {s} \cap {u \in Sessions : request[u].pc # "idle"}}

\* a session that has uploaded nothing gets 400 and no code
C30_NoUploadNoCode ==
    [][\A s \in Sessions :
          (C30_Served(s) /\ session[s] = 0) => response'[s].status = 400]_vars

\* the code a session gets is never that of an earlier upload of its own
C30_NoEarlierUpload ==
    [][\A s \in Sessions :
          (C30_Served(s) /\ response'[s].body.kind = "code"
             /\ response'[s].body.session = s) =>
              response'[s].body.n \in C30_Recent(s)]_vars

\* C30: under any interleaving of the requests of several sessions, a GET
\* /get_js_content of a session with an accepted upload returns only the
\* placeholder or the code generated from the most recent upload of that
\* session, never code of an earlier upload or of another session, and a
\* session that has uploaded nothing gets 400.
C30_OwnLatestCodeOnly ==
    [][\A s \in Sessions :
          C30_Served(s) =>
              /\ session[s] = 0 => response'[s].status = 400
              /\ response'[s].body.kind = "code" =>
                    /\ response'[s].body.session = s
                    /\ response'[s].body.n \in C30_Recent(s)]_vars
====
